---------------------------- MODULE Spec2Model ----------------------------
(***************************************************************************)
(* PSCI power-state core of the Rockchip rk322x platform                   *)
(* (core/arch/arm/plat-rockchip/psci_rk322x.c).                            *)
(*                                                                         *)
(* Every register access of the source is one step of the calling core.   *)
(* The core-status register GRF_CPU_STATUS1 is driven by the hardware: a   *)
(* read returns any of the contents in StatusReads, chosen anew at every   *)
(* read.  The soft-reset register CRU_SOFTRST_CON(0) is written by         *)
(* software only, through its write-mask half.                             *)
(*                                                                         *)
(* The TI DRA7 random number driver (core/drivers/dra7_rng.c) is modelled  *)
(* beside it: hw_get_random_byte called from several threads (SpecRng).    *)
(***************************************************************************)
EXTENDS Integers, Sequences, FiniteSets, TLC

(***************************************************************************)
(* Bounds of the model.                                                    *)
(***************************************************************************)
\* The polling loops of the source run up to 500 iterations; the model runs
\* them up to WfeLoopMax iterations.
WfeLoopMax == 2
\* Core positions get_core_pos() may report beyond the last core.
MaxExtraPos == 1
\* Values of the upper affinity fields (bits 8 and up) of a core_idx argument.
MaxAffHigh == 1
MaxStatusBits == 9
MaxFid == 16

(***************************************************************************)
(* Program constants.  Those set in headers outside the translated sources *)
(* (cru.h, grf.h, arm.h, platform_config.h, conf.mk) carry the values of   *)
(* the rk322x platform.                                                    *)
(***************************************************************************)
CFG_TEE_CORE_NB_CORE == 4
MPIDR_CPU_MASK == 255
\* A 32-bit address or tag is written as its two 16-bit halves.
Word32(hi, lo) == <<hi, lo>>
CFG_TEE_LOAD_ADDR == Word32(26688, 0)       \* 0x68400000, the secure load address
LOCK_TAG == Word32(57005, 48815)            \* 0xdeadbeaf
BOOT_ADDR_OFFSET == 8
LOCK_ADDR_OFFSET == 4
NONBOOT_CORES_SOFT_RESET == 14680288 \* 0x00e000e0

PSCI_RET_SUCCESS == 0
PSCI_RET_NOT_SUPPORTED == -1
PSCI_RET_INVALID_PARAMETERS == -2
PSCI_RET_DENIED == -3
PSCI_RET_INTERNAL_FAILURE == -6

\* sm/psci.h: results of psci_affinity_info, and the function identifiers.
PSCI_AFFINITY_LEVEL_ON == 0
PSCI_AFFINITY_LEVEL_OFF == 1
PSCI_VERSION == Word32(33792, 0)             \* 0x84000000
PSCI_CPU_OFF == Word32(33792, 2)
PSCI_CPU_ON == Word32(33792, 3)
PSCI_AFFINITY_INFO == Word32(33792, 4)
PSCI_SYSTEM_RESET == Word32(33792, 9)
PSCI_PSCI_FEATURES == Word32(33792, 10)
PSCI_SYSTEM_SUSPEND == Word32(33792, 14)

(***************************************************************************)
(* 32-bit arithmetic.  Register words and core ids are integers; every    *)
(* word built here stays below 2^31, so no shift drops a bit.              *)
(***************************************************************************)
RECURSIVE BitAnd(_, _)
BitAnd(a, b) ==
    IF a = 0 \/ b = 0 THEN 0
    ELSE (a % 2) * (b % 2) + 2 * BitAnd(a \div 2, b \div 2)

BitOr(a, b) == a + b - BitAnd(a, b)

SHIFT_U32(v, shift) == v * (2 ^ shift)

\* cru.h: a field and its write-enable mask in the upper half; the write
\* mask alone.
BITS_WITH_WMASK(bits, msk, shift) ==
    Word32(SHIFT_U32(msk, shift), SHIFT_U32(bits, shift))

BITS_WMSK(msk, shift) == Word32(SHIFT_U32(msk, shift), 0)

\* a | b on 32-bit words.
WordOr(a, b) == Word32(BitOr(a[1], b[1]), BitOr(a[2], b[2]))

\* cru.h: PLL ids, the lock and power-down bits of CRU_PLL_CON1, the mode
\* bit of a PLL in CRU_MODE_CON, the second global reset.
APLL_ID == 0
CPLL_ID == 2
GPLL_ID == 3
CRU_CLKGATE_CON_CNT == 16
PLL_LOCK == 1024                                        \* BIT(10)
PLL_POWER_UP == BITS_WITH_WMASK(0, 1, 13)
PLL_POWER_DOWN == BITS_WITH_WMASK(1, 1, 13)
PLL_MODE_BIT(pll) == pll * 4
PLL_SLOW_MODE(pll) == BITS_WITH_WMASK(0, 1, PLL_MODE_BIT(pll))
PLLS_SLOW_MODE == Word32(4355, 0)                       \* 0x11030000
CRU_SNDRST_VAL == Word32(0, 60584)                      \* 0xeca8

\* The low half of a write-masked register after the word w is written.
CruWriteW(old, w) ==
    BitOr(BitAnd(old, 65535 - w[1]), BitAnd(w[2], w[1]))

\* The iterations of the lock poll of pll_wait_lock.
PLL_LOCK_LOOPS == 500

\* cru.h: value bit and write-enable bit of a core's soft reset.
CORE_SOFT_RESET(core) == SHIFT_U32(1048592, core)      \* 0x100010 << core
CORE_SOFT_RELEASE(core) == SHIFT_U32(1048576, core)    \* 0x100000 << core
CORE_HELD_IN_RESET(core) == SHIFT_U32(16, core)        \* 0x000010 << core

\* grf.h: status bits of a core in GRF_CPU_STATUS1.
CORE_WFE_MASK(core) == SHIFT_U32(2, core)
CORE_WFI_MASK(core) == SHIFT_U32(32, core)
CORE_WFE_I_MASK(core) == BitOr(CORE_WFI_MASK(core), CORE_WFE_MASK(core))

\* A write32 to a CRU register: the upper half of the written word enables
\* the write of the matching bit of the lower half; the other bits keep
\* their value.
CruWrite32(old, word) ==
    LET wmask == word \div 65536
        val == word % 65536
    IN  BitOr(BitAnd(old, 65535 - wmask), BitAnd(val, wmask))

(***************************************************************************)
(* Inputs.                                                                 *)
(***************************************************************************)
Procs == {1, 2}

Cores == 0 .. (CFG_TEE_CORE_NB_CORE - 1)

\* core_idx arguments of psci_cpu_on: an affinity-0 field 0 .. N+1 below
\* upper affinity fields 0 .. MaxAffHigh.
CoreIdxArgs ==
    { lo + (MPIDR_CPU_MASK + 1) * hi :
        lo \in 0 .. (CFG_TEE_CORE_NB_CORE + 1), hi \in 0 .. MaxAffHigh }

\* entry arguments of psci_cpu_on: 0x80100000 and 0x80200000.
Entries == {Word32(32784, 0), Word32(32800, 0)}

\* What get_core_pos() may report to psci_cpu_off.
CorePosInputs == 0 .. (CFG_TEE_CORE_NB_CORE + MaxExtraPos)

\* Contents a read of GRF_CPU_STATUS1 may return.
StatusReads ==
    {0, 510}
    \cup { CORE_WFE_MASK(c) : c \in Cores }
    \cup { CORE_WFI_MASK(c) : c \in Cores }

\* Contents of the low half of CRU_SOFTRST_CON(0) when the secure world
\* starts: the boot core runs, so its reset bit is clear.
SoftrstBootValues == {0, 65295}      \* 0x0000, 0xff0f

\* affinity arguments of psci_affinity_info: a core below upper affinity
\* fields 0 .. MaxAffHigh.
AffinityArgs ==
    { lo + (MPIDR_CPU_MASK + 1) * hi : lo \in Cores, hi \in 0 .. MaxAffHigh }

\* Contents a read of GRF_CPU_STATUS1 may return in psci_affinity_info:
\* every pattern of its low MaxStatusBits bits.
AffStatusReads == 0 .. (2 ^ MaxStatusBits - 1)

\* psci_fid arguments of psci_features: the 32-bit identifiers 0x84000000 ..
\* 0x84000000 + MaxFid, their 64-bit twins 0xc4000000 .., and the same low
\* halves under a zero and an all-ones upper half.
FidArgs ==
    { Word32(hi, n) : hi \in {0, 33792, 50176, 65535}, n \in 0 .. MaxFid }

(***************************************************************************)
(* State.                                                                  *)
(***************************************************************************)
VARIABLES
    booted,          \* reset_nonboot_cores has run (service_init_late)
    softrst,         \* low half of CRU_SOFTRST_CON(0)
    ns_entry_addrs,  \* entry-address table, one slot per core
    isram,           \* the two words of the SRAM handoff record
    ctx,             \* per calling core: position and locals of its PSCI call
    cru,             \* low halves of the clock and PLL registers of the CRU
    dram_d,          \* the clock/PLL snapshot of psci_system_suspend
    sys,             \* position and locals of a system-level PSCI call
    trng             \* dra7_rng.c: mutex, statics and callers of the RNG driver

vars == <<booted, softrst, ns_entry_addrs, isram, ctx, cru, dram_d, sys, trng>>

\* The state of psci_cpu_on / psci_cpu_off, left alone by the system calls.
corevars == <<booted, softrst, ns_entry_addrs, isram, ctx>>

\* A register of the CRU: its kind and its index.
CRU_MODE_CON == <<"mode", 0>>
CRU_CLKSEL_CON(i) == <<"clksel", i>>
CRU_CLKGATE_CON(i) == <<"clkgate", i>>
CRU_PLL_CON1(pll) == <<"pll_con1", pll>>
CRU_SNDRST_VAL_BASE == <<"sndrst", 0>>

\* The PLLs psci_system_suspend powers down, and the clock-select registers
\* it reprograms.
SuspendPlls == {APLL_ID, CPLL_ID, GPLL_ID}
ClkselRegs == {0, 1, 10, 21}
ClkgateRegs == 0 .. (CRU_CLKGATE_CON_CNT - 1)

\* The registers mirrored by struct dram_data.
DramDataRegs ==
    {CRU_MODE_CON}
    \cup { CRU_CLKSEL_CON(i) : i \in ClkselRegs }
    \cup { CRU_CLKGATE_CON(i) : i \in ClkgateRegs }

CruRegs ==
    DramDataRegs \cup { CRU_PLL_CON1(pll) : pll \in SuspendPlls }
                 \cup {CRU_SNDRST_VAL_BASE}

\* Register contents before a suspend: 0x0000, 0xffff, 0xa5a5, 0x5a5a,
\* dealt to the registers in turn starting at pattern k.
RegPatterns == <<0, 65535, 42405, 23130>>

Pat(n) == RegPatterns[(n % Len(RegPatterns)) + 1]

CruBoot(k) ==
    [r \in CruRegs |-> IF r \in DramDataRegs THEN Pat(k + r[2]) ELSE 0]

\* The snapshot before the first suspend: static storage, all zero.
DramBoot == [r \in DramDataRegs |-> Word32(0, 0)]

\* pre and pre_d are the registers and the snapshot as the running call
\* found them; saved is the set of snapshot fields the call has written;
\* nolock tells that no read of the running lock poll saw PLL_LOCK.
IdleSys ==
    [pc |-> "idle", op |-> "none", arg |-> 0, fid |-> Word32(0, 0),
     status |-> 0, ret |-> 0, i |-> 0, loop |-> 0, log |-> <<>>,
     pre |-> CruBoot(0), pre_d |-> DramBoot, saved |-> {}, nolock |-> TRUE]

\* dra7_rng.c: bits of RNG_STATUS and the mask of all FROs.
RNG_READY == 1
SHUTDOWN_OFLO == 2
RNG_FRO_MASK == 16777215

BitXor(a, b) == a + b - 2 * BitAnd(a, b)

\* The calls of hw_get_random_byte a behaviour makes.
MaxRngCalls == 17

\* What the registers of the RNG can read: RNG_STATUS, RNG_OUTPUT_L and
\* RNG_OUTPUT_H, RNG_ALARMSTOP.
RngStatusReads == {0, RNG_READY, SHUTDOWN_OFLO, RNG_READY + SHUTDOWN_OFLO}
RngOutputs == {Word32(1027, 513), Word32(2055, 1541)}
RngAlarms == {0, 5}

\* static vaddr_t rng before and after rng = rng_base().
NoVa == "null"
rng_base == "rng_base"

\* union { uint64_t val; uint8_t byte[8]; } random on a little-endian core:
\* val is <<low word, high word>>, byte[i] is bits 8i .. 8i+7 of val.
RandomVal(lo, hi) == <<lo, hi>>

RandomByte(random, i) ==
    LET word == random[(i \div 4) + 1]
        half == IF i % 4 < 2 THEN word[2] ELSE word[1]
    IN  (half \div (256 ^ (i % 2))) % 256

IdleCall == [pc |-> "idle", ret |-> 0, took |-> 0]

\* The driver after dra7_rng_init: the mutex free (MUTEX_INITIALIZER), the
\* statics zero, RNG_FRODETUNE 0 and RNG_FROENABLE 0xffffff.
IdleRng ==
    [mutex |-> 0, rng |-> NoVa, pos |-> 0,
     random |-> RandomVal(Word32(0, 0), Word32(0, 0)),
     regs |-> [RNG_ALARMMASK |-> 0, RNG_ALARMSTOP |-> 0,
               RNG_FRODETUNE |-> 0, RNG_FROENABLE |-> RNG_FRO_MASK],
     call |-> [p \in Procs |-> IdleCall],
     calls |-> 0, fetched |-> <<>>, acks |-> 0, oflo_acked |-> FALSE,
     taken |-> <<>>, returned |-> {}, twice |-> FALSE]

IdleCtx ==
    [pc |-> "idle", op |-> "none", arg |-> 0, core_idx |-> 0, entry |-> Word32(0, 0),
     site |-> "none", loop |-> 0, wfei |-> FALSE, ret |-> 0,
     log |-> <<>>, seen |-> FALSE, prewait |-> "none", held |-> FALSE,
     rst0 |-> 0, prep_ok |-> TRUE, first |-> FALSE]

Init ==
    /\ booted = FALSE
    /\ softrst \in SoftrstBootValues
    /\ ns_entry_addrs = [c \in Cores |-> Word32(0, 0)]
    /\ isram = [o \in {BOOT_ADDR_OFFSET, LOCK_ADDR_OFFSET} |-> Word32(0, 0)]
    /\ ctx = [p \in Procs |-> IdleCtx]
    /\ cru = CruBoot(0)
    /\ dram_d = DramBoot
    /\ sys = IdleSys
    /\ trng = IdleRng

\* Register contents and locals with a field changed.
Upd(p, r) == [ctx EXCEPT ![p] = r]

Logged(c, events) == [c EXCEPT !.log = c.log \o events]

\* reset_nonboot_cores leaving the last core out: 0x00600060.
reset_nonboot_cores_SkipsLast ==
    /\ ~booted
    /\ booted' = TRUE
    /\ softrst' = CruWrite32(softrst, NONBOOT_CORES_SOFT_RESET
                                      - CORE_SOFT_RESET(CFG_TEE_CORE_NB_CORE - 1))
    /\ UNCHANGED <<ns_entry_addrs, isram, ctx, cru, dram_d, sys, trng>>

\* write32(NONBOOT_CORES_SOFT_RESET, va_base + CRU_SOFTRST_CON(0))
reset_nonboot_cores ==
    /\ ~booted
    /\ booted' = TRUE
    /\ softrst' = CruWrite32(softrst, NONBOOT_CORES_SOFT_RESET)
    /\ UNCHANGED <<ns_entry_addrs, isram, ctx, cru, dram_d, sys, trng>>


(***************************************************************************)
(* psci_cpu_on                                                             *)
(***************************************************************************)
\* core_held_in_reset(): one read of CRU_SOFTRST_CON(0).
core_held_in_reset(core) == BitAnd(softrst, CORE_HELD_IN_RESET(core)) # 0

\* No psci_cpu_on has stored an entry for the core yet: its slot of the
\* entry-address table is as the start left it.
Untargeted(core) == ns_entry_addrs[core] = Word32(0, 0)

\* psci_cpu_on_enter storing the entry before the range check.
psci_cpu_on_enter_StoresFirst(p, a, e) ==
    /\ booted
    /\ ctx[p].pc = "idle"
    /\ LET idx == BitAnd(a, MPIDR_CPU_MASK)
           c0 == [IdleCtx EXCEPT !.op = "cpu_on", !.arg = a, !.core_idx = idx,
                                 !.entry = e, !.rst0 = softrst]
       IN  /\ ns_entry_addrs' =
                  [ns_entry_addrs EXCEPT ![idx % CFG_TEE_CORE_NB_CORE] = e]
           /\ ctx' = Upd(p,
                  IF (idx = 0) \/ (idx >= CFG_TEE_CORE_NB_CORE)
                  THEN [c0 EXCEPT !.pc = "ret",
                                  !.ret = PSCI_RET_INVALID_PARAMETERS]
                  ELSE [c0 EXCEPT !.pc = "on_set_entry"])
    /\ UNCHANGED <<booted, softrst, isram, cru, dram_d, sys, trng>>

\* psci_cpu_on_enter with the range check off by one (core_idx > N).
psci_cpu_on_enter_OffByOne(p, a, e) ==
    /\ booted
    /\ ctx[p].pc = "idle"
    /\ LET idx == BitAnd(a, MPIDR_CPU_MASK)
           c0 == [IdleCtx EXCEPT !.op = "cpu_on", !.arg = a, !.core_idx = idx,
                                 !.entry = e, !.rst0 = softrst]
       IN  ctx' = Upd(p,
               IF (idx = 0) \/ (idx > CFG_TEE_CORE_NB_CORE)
               THEN [c0 EXCEPT !.pc = "ret", !.ret = PSCI_RET_INVALID_PARAMETERS]
               ELSE [c0 EXCEPT !.pc = "on_set_entry"])
    /\ UNCHANGED <<booted, softrst, ns_entry_addrs, isram, cru, dram_d, sys, trng>>

\* Entry of psci_cpu_on: the argument is cut to its affinity-0 field and
\* range-checked.
psci_cpu_on_enter(p, a, e) ==
    /\ booted
    /\ ctx[p].pc = "idle"
    /\ LET idx == BitAnd(a, MPIDR_CPU_MASK)
           c0 == [IdleCtx EXCEPT !.op = "cpu_on", !.arg = a, !.core_idx = idx,
                                 !.entry = e, !.rst0 = softrst]
       IN  ctx' = Upd(p,
               IF (idx = 0) \/ (idx >= CFG_TEE_CORE_NB_CORE)
               THEN [c0 EXCEPT !.pc = "ret", !.ret = PSCI_RET_INVALID_PARAMETERS]
               ELSE [c0 EXCEPT !.pc = "on_set_entry"])
    /\ UNCHANGED <<booted, softrst, ns_entry_addrs, isram, cru, dram_d, sys, trng>>

\* on_set_entry storing into the slot below the target's.
on_set_entry_WrongSlot(p) ==
    /\ ctx[p].pc = "on_set_entry"
    /\ ns_entry_addrs' =
           [ns_entry_addrs EXCEPT ![ctx[p].core_idx - 1] = ctx[p].entry]
    /\ ctx' = Upd(p, [Logged(ctx[p], <<"entry">>) EXCEPT
                          !.pc = "on_held_check",
                          !.first = Untargeted(ctx[p].core_idx)])
    /\ UNCHANGED <<booted, softrst, isram, cru, dram_d, sys, trng>>

\* ns_entry_addrs[core_idx] = entry
on_set_entry(p) ==
    /\ ctx[p].pc = "on_set_entry"
    /\ ns_entry_addrs' = [ns_entry_addrs EXCEPT ![ctx[p].core_idx] = ctx[p].entry]
    /\ ctx' = Upd(p, [Logged(ctx[p], <<"entry">>) EXCEPT
                          !.pc = "on_held_check",
                          !.first = Untargeted(ctx[p].core_idx)])
    /\ UNCHANGED <<booted, softrst, isram, cru, dram_d, sys, trng>>

\* if (!core_held_in_reset(core_idx)) wfei = wait_core_wfe_i(core_idx)
on_held_check(p) ==
    /\ ctx[p].pc = "on_held_check"
    /\ ctx' = Upd(p,
           IF core_held_in_reset(ctx[p].core_idx)
           THEN [ctx[p] EXCEPT !.pc = "on_assert", !.held = TRUE,
                               !.prewait = "skipped"]
           ELSE [ctx[p] EXCEPT !.pc = "wfe_loop", !.held = FALSE,
                               !.site = "pre", !.loop = 0, !.seen = FALSE])
    /\ UNCHANGED <<booted, softrst, ns_entry_addrs, isram, cru, dram_d, sys, trng>>

\* wait_core_wfe_i_poll starting over when the bound is reached.
wait_core_wfe_i_poll_Rewinds(p, v) ==
    /\ ctx[p].pc = "wfe_loop"
    /\ LET set == BitAnd(v, CORE_WFE_I_MASK(ctx[p].core_idx)) # 0
       IN  ctx' = Upd(p,
               IF ~set
               THEN [ctx[p] EXCEPT !.loop = (@ + 1) % (WfeLoopMax + 1)]
               ELSE [ctx[p] EXCEPT !.pc = "wfe_return", !.seen = @ \/ set])
    /\ UNCHANGED <<booted, softrst, ns_entry_addrs, isram, cru, dram_d, sys, trng>>

\* One evaluation of the loop condition of wait_core_wfe_i: the register is
\* read (value v); the loop goes on while the bit is clear and the bound is
\* not reached.
wait_core_wfe_i_poll(p, v) ==
    /\ ctx[p].pc = "wfe_loop"
    /\ LET set == BitAnd(v, CORE_WFE_I_MASK(ctx[p].core_idx)) # 0
       IN  ctx' = Upd(p,
               IF ~set /\ ctx[p].loop < WfeLoopMax
               THEN [ctx[p] EXCEPT !.loop = @ + 1]
               ELSE [ctx[p] EXCEPT !.pc = "wfe_return", !.seen = @ \/ set])
    /\ UNCHANGED <<booted, softrst, ns_entry_addrs, isram, cru, dram_d, sys, trng>>

\* AfterPreWait going on to the reset whatever the wait reported.
AfterPreWait_Ignored(c) == [c EXCEPT !.pc = "on_assert"]

\* What psci_cpu_on does with the result of the wait before the reset.
AfterPreWait(c) ==
    IF ~c.wfei
    THEN [c EXCEPT !.pc = "ret", !.ret = PSCI_RET_DENIED]
    ELSE [c EXCEPT !.pc = "on_assert"]

\* AfterPostWait going on to the handoff whatever the wait reported.
AfterPostWait_Ignored(c) == [c EXCEPT !.pc = "on_boot"]

\* What psci_cpu_on does with the result of the wait after the release.
AfterPostWait(c) ==
    IF ~c.wfei
    THEN [c EXCEPT !.pc = "ret", !.ret = PSCI_RET_DENIED]
    ELSE [c EXCEPT !.pc = "on_boot"]

\* The return of wait_core_wfe_i: the register is read once more (value v)
\* and that read is the result.
wait_core_wfe_i_return(p, v) ==
    /\ ctx[p].pc = "wfe_return"
    /\ LET set == BitAnd(v, CORE_WFE_I_MASK(ctx[p].core_idx)) # 0
           c1 == [ctx[p] EXCEPT !.wfei = set, !.seen = @ \/ set]
       IN  ctx' = Upd(p,
               IF c1.site = "pre"
               THEN AfterPreWait([c1 EXCEPT
                        !.prewait = IF c1.seen THEN "seen" ELSE "unseen"])
               ELSE AfterPostWait(c1))
    /\ UNCHANGED <<booted, softrst, ns_entry_addrs, isram, cru, dram_d, sys, trng>>

\* on_assert without the barrier after the write.
on_assert_NoDsb(p) ==
    /\ ctx[p].pc = "on_assert"
    /\ softrst' = CruWrite32(softrst, CORE_SOFT_RESET(ctx[p].core_idx))
    /\ ctx' = Upd(p, [Logged(ctx[p], <<"assert">>) EXCEPT !.pc = "on_release"])
    /\ UNCHANGED <<booted, ns_entry_addrs, isram, cru, dram_d, sys, trng>>

\* on_assert storing the reset bit with every write-enable bit set.
on_assert_Unmasked(p) ==
    /\ ctx[p].pc = "on_assert"
    /\ softrst' = CORE_HELD_IN_RESET(ctx[p].core_idx)
    /\ ctx' = Upd(p, [Logged(ctx[p], <<"assert", "dsb">>) EXCEPT
                          !.pc = "on_release"])
    /\ UNCHANGED <<booted, ns_entry_addrs, isram, cru, dram_d, sys, trng>>

\* soft reset core: write32(CORE_SOFT_RESET(core_idx), ...); dsb(); udelay(2)
on_assert(p) ==
    /\ ctx[p].pc = "on_assert"
    /\ softrst' = CruWrite32(softrst, CORE_SOFT_RESET(ctx[p].core_idx))
    /\ ctx' = Upd(p, [Logged(ctx[p], <<"assert", "dsb">>) EXCEPT
                          !.pc = "on_release"])
    /\ UNCHANGED <<booted, ns_entry_addrs, isram, cru, dram_d, sys, trng>>

\* soft release core: write32(CORE_SOFT_RELEASE(core_idx), ...); dsb(); then
\* the second wait starts.
on_release(p) ==
    /\ ctx[p].pc = "on_release"
    /\ softrst' = CruWrite32(softrst, CORE_SOFT_RELEASE(ctx[p].core_idx))
    /\ ctx' = Upd(p, [Logged(ctx[p], <<"release", "dsb">>) EXCEPT
                          !.pc = "wfe_loop", !.site = "post", !.loop = 0,
                          !.seen = FALSE])
    /\ UNCHANGED <<booted, ns_entry_addrs, isram, cru, dram_d, sys, trng>>

\* on_boot storing the caller's entry instead of the secure load address.
on_boot_WritesEntry(p) ==
    /\ ctx[p].pc = "on_boot"
    /\ isram' = [isram EXCEPT ![BOOT_ADDR_OFFSET] = ctx[p].entry]
    /\ ctx' = Upd(p, [Logged(ctx[p], <<"boot">>) EXCEPT !.pc = "on_lock"])
    /\ UNCHANGED <<booted, softrst, ns_entry_addrs, cru, dram_d, sys, trng>>

\* write32(CFG_TEE_LOAD_ADDR, isram_base + BOOT_ADDR_OFFSET)
on_boot(p) ==
    /\ ctx[p].pc = "on_boot"
    /\ isram' = [isram EXCEPT ![BOOT_ADDR_OFFSET] = CFG_TEE_LOAD_ADDR]
    /\ ctx' = Upd(p, [Logged(ctx[p], <<"boot">>) EXCEPT !.pc = "on_lock"])
    /\ UNCHANGED <<booted, softrst, ns_entry_addrs, cru, dram_d, sys, trng>>

\* on_lock without the barrier after the write.
on_lock_NoDsb(p) ==
    /\ ctx[p].pc = "on_lock"
    /\ isram' = [isram EXCEPT ![LOCK_ADDR_OFFSET] = LOCK_TAG]
    /\ ctx' = Upd(p, [Logged(ctx[p], <<"lock">>) EXCEPT !.pc = "on_sev"])
    /\ UNCHANGED <<booted, softrst, ns_entry_addrs, cru, dram_d, sys, trng>>

\* write32(LOCK_TAG, isram_base + LOCK_ADDR_OFFSET); dsb()
on_lock(p) ==
    /\ ctx[p].pc = "on_lock"
    /\ isram' = [isram EXCEPT ![LOCK_ADDR_OFFSET] = LOCK_TAG]
    /\ ctx' = Upd(p, [Logged(ctx[p], <<"lock", "dsb">>) EXCEPT !.pc = "on_sev"])
    /\ UNCHANGED <<booted, softrst, ns_entry_addrs, cru, dram_d, sys, trng>>

\* sev(); dsb()
on_sev(p) ==
    /\ ctx[p].pc = "on_sev"
    /\ ctx' = Upd(p, [Logged(ctx[p], <<"sev", "dsb">>) EXCEPT
                          !.pc = "on_success"])
    /\ UNCHANGED <<booted, softrst, ns_entry_addrs, isram, cru, dram_d, sys, trng>>

\* return PSCI_RET_SUCCESS
on_success(p) ==
    /\ ctx[p].pc = "on_success"
    /\ ctx' = Upd(p, [ctx[p] EXCEPT !.pc = "ret", !.ret = PSCI_RET_SUCCESS])
    /\ UNCHANGED <<booted, softrst, ns_entry_addrs, isram, cru, dram_d, sys, trng>>

(***************************************************************************)
(* psci_cpu_off                                                            *)
(***************************************************************************)
\* psci_cpu_off_enter with the range check off by one (core > N).
psci_cpu_off_enter_OffByOne(p, core) ==
    /\ booted
    /\ ctx[p].pc = "idle"
    /\ LET c0 == [IdleCtx EXCEPT !.op = "cpu_off", !.arg = core,
                                 !.core_idx = core, !.rst0 = softrst]
       IN  ctx' = Upd(p,
               IF (core = 0) \/ (core > CFG_TEE_CORE_NB_CORE)
               THEN [c0 EXCEPT !.pc = "ret", !.ret = PSCI_RET_INVALID_PARAMETERS]
               ELSE [c0 EXCEPT !.pc = "off_prepare"])
    /\ UNCHANGED <<booted, softrst, ns_entry_addrs, isram, cru, dram_d, sys, trng>>

\* Entry of psci_cpu_off: get_core_pos() reports core.
psci_cpu_off_enter(p, core) ==
    /\ booted
    /\ ctx[p].pc = "idle"
    /\ LET c0 == [IdleCtx EXCEPT !.op = "cpu_off", !.arg = core,
                                 !.core_idx = core, !.rst0 = softrst]
       IN  ctx' = Upd(p,
               IF (core = 0) \/ (core >= CFG_TEE_CORE_NB_CORE)
               THEN [c0 EXCEPT !.pc = "ret", !.ret = PSCI_RET_INVALID_PARAMETERS]
               ELSE [c0 EXCEPT !.pc = "off_prepare"])
    /\ UNCHANGED <<booted, softrst, ns_entry_addrs, isram, cru, dram_d, sys, trng>>

\* psci_armv7_cpu_off(): the preparation succeeds or fails (ok); it returns
\* no status and the caller goes on either way.
off_prepare(p, ok) ==
    /\ ctx[p].pc = "off_prepare"
    /\ ctx' = Upd(p, [Logged(ctx[p], <<"psci_armv7_cpu_off">>) EXCEPT
                          !.pc = "off_mask", !.prep_ok = ok])
    /\ UNCHANGED <<booted, softrst, ns_entry_addrs, isram, cru, dram_d, sys, trng>>

\* off_mask going on to the spin without masking.
off_mask_Skipped(p) ==
    /\ ctx[p].pc = "off_mask"
    /\ ctx' = Upd(p, [ctx[p] EXCEPT !.pc = "off_wfi"])
    /\ UNCHANGED <<booted, softrst, ns_entry_addrs, isram, cru, dram_d, sys, trng>>

\* thread_mask_exceptions(THREAD_EXCP_ALL)
off_mask(p) ==
    /\ ctx[p].pc = "off_mask"
    /\ ctx' = Upd(p, [Logged(ctx[p], <<"mask">>) EXCEPT !.pc = "off_wfi"])
    /\ UNCHANGED <<booted, softrst, ns_entry_addrs, isram, cru, dram_d, sys, trng>>

\* off_wfi leaving the loop for the return below it when the preparation
\* failed.
off_wfi_FallsThrough(p) ==
    /\ ctx[p].pc = "off_wfi"
    /\ ctx' = Upd(p,
           IF ~ctx[p].prep_ok
           THEN [ctx[p] EXCEPT !.pc = "ret", !.ret = PSCI_RET_INTERNAL_FAILURE]
           ELSE IF ctx[p].log # <<>> /\ ctx[p].log[Len(ctx[p].log)] = "wfi"
                THEN ctx[p]
                ELSE Logged(ctx[p], <<"wfi">>))
    /\ UNCHANGED <<booted, softrst, ns_entry_addrs, isram, cru, dram_d, sys, trng>>

\* while (1) wfi();  -- the first wfi is logged, the later ones change nothing
off_wfi(p) ==
    /\ ctx[p].pc = "off_wfi"
    /\ ctx' = Upd(p,
           IF ctx[p].log # <<>> /\ ctx[p].log[Len(ctx[p].log)] = "wfi"
           THEN ctx[p]
           ELSE Logged(ctx[p], <<"wfi">>))
    /\ UNCHANGED <<booted, softrst, ns_entry_addrs, isram, cru, dram_d, sys, trng>>

(***************************************************************************)
(* The caller takes the result and may call again.                         *)
(***************************************************************************)
Return(p) ==
    /\ ctx[p].pc = "ret"
    /\ ctx' = Upd(p, IdleCtx)
    /\ UNCHANGED <<booted, softrst, ns_entry_addrs, isram, cru, dram_d, sys, trng>>

\* The steps of a call in flight.
Step(p) ==
    \/ on_set_entry(p)
    \/ on_held_check(p)
    \/ \E v \in StatusReads : wait_core_wfe_i_poll(p, v)
    \/ \E v \in StatusReads : wait_core_wfe_i_return(p, v)
    \/ on_assert(p)
    \/ on_release(p)
    \/ on_boot(p)
    \/ on_lock(p)
    \/ on_sev(p)
    \/ on_success(p)
    \/ \E ok \in BOOLEAN : off_prepare(p, ok)
    \/ off_mask(p)
    \/ off_wfi(p)
    \/ Return(p)

\* A call enters on core p.
Enter(p) ==
    \/ \E a \in CoreIdxArgs, e \in Entries : psci_cpu_on_enter(p, a, e)
    \/ \E core \in CorePosInputs : psci_cpu_off_enter(p, core)

\* One PSCI call at a time: a call enters only while no other is in flight.
NoOtherCall(p) == \A q \in Procs \ {p} : ctx[q].pc = "idle"

Next ==
    \/ reset_nonboot_cores
    \/ \E p \in Procs : NoOtherCall(p) /\ Enter(p)
    \/ \E p \in Procs : Step(p)

Spec == Init /\ [][Next]_vars

(***************************************************************************)
(* Calls on two cores at once (SpecConc): nothing in the source keeps a    *)
(* second core from entering psci_cpu_on while a call is in flight.  The   *)
(* caller p runs on core position p - 1 and passes an entry of its own.    *)
(***************************************************************************)
ConcTargets == {2}

ConcEntry(p) == Word32(32784 + 16 * (p - 1), 0)

EnterConc(p) ==
    \/ \E a \in ConcTargets : psci_cpu_on_enter(p, a, ConcEntry(p))
    \/ psci_cpu_off_enter(p, p - 1)

NextConc ==
    \/ reset_nonboot_cores
    \/ \E p \in Procs : EnterConc(p)
    \/ \E p \in Procs : Step(p)

SpecConc == Init /\ [][NextConc]_vars

(***************************************************************************)
(* The system-level calls (SpecSys): psci_affinity_info, psci_features,    *)
(* psci_system_reset and psci_system_suspend, one call at a time, after    *)
(* the late init.  The log holds, in order, the register writes, snapshot  *)
(* saves, barriers and instructions of the running call.                   *)
(***************************************************************************)
NoReg == <<"none", 0>>

Ev(ev, reg, w) == [ev |-> ev, reg |-> reg, w |-> w]

SysLogged(c, events) == [c EXCEPT !.log = c.log \o events]

\* write32(w, reg): the write-masked registers take the enabled bits, the
\* reset trigger takes the word.
write32(c, w, reg) ==
    [c EXCEPT ![reg] = IF reg = CRU_SNDRST_VAL_BASE THEN w[2]
                       ELSE CruWriteW(@, w)]

\* read32(reg): the upper half of a register of the CRU reads as zero.
read32(c, reg) == Word32(0, c[reg])

InitSys ==
    /\ booted = TRUE
    /\ softrst = BitAnd(NONBOOT_CORES_SOFT_RESET, 65535)
    /\ ns_entry_addrs = [c \in Cores |-> Word32(0, 0)]
    /\ isram = [o \in {BOOT_ADDR_OFFSET, LOCK_ADDR_OFFSET} |-> Word32(0, 0)]
    /\ ctx = [p \in Procs |-> IdleCtx]
    /\ \E k \in 1 .. Len(RegPatterns) : cru = CruBoot(k)
    /\ dram_d = DramBoot
    /\ sys = IdleSys
    /\ trng = IdleRng

\* A call starts: it finds the registers and the snapshot as they are.
Called(op) ==
    [IdleSys EXCEPT !.op = op, !.pre = cru, !.pre_d = dram_d]

\* psci_affinity_info reading the wait-for-event bit of the core.
psci_affinity_info_WfeBit(affinity, status) ==
    IF BitAnd(status, CORE_WFE_MASK(BitAnd(affinity, MPIDR_CPU_MASK))) # 0
    THEN PSCI_AFFINITY_LEVEL_OFF
    ELSE PSCI_AFFINITY_LEVEL_ON

\* psci_affinity_info(affinity, lowest_affinity_level), status being what
\* its read of GRF_CPU_STATUS1 returns.
psci_affinity_info(affinity, status) ==
    LET core_idx == BitAnd(affinity, MPIDR_CPU_MASK)
        wfi_mask == CORE_WFI_MASK(core_idx)
    IN  IF BitAnd(status, wfi_mask) # 0
        THEN PSCI_AFFINITY_LEVEL_OFF
        ELSE PSCI_AFFINITY_LEVEL_ON

affinity_info_call(a, v) ==
    /\ sys.pc = "idle"
    /\ sys' = [Called("affinity_info") EXCEPT
                  !.arg = a, !.status = v, !.pc = "ret",
                  !.ret = psci_affinity_info(a, v)]
    /\ UNCHANGED <<corevars, cru, dram_d, trng>>

\* psci_features answering for psci_affinity_info too.
psci_features_WithAffinityInfo(psci_fid) ==
    IF psci_fid \in {PSCI_PSCI_FEATURES, PSCI_VERSION, PSCI_CPU_ON,
                     PSCI_CPU_OFF, PSCI_SYSTEM_SUSPEND, PSCI_SYSTEM_RESET,
                     PSCI_AFFINITY_INFO}
    THEN PSCI_RET_SUCCESS
    ELSE PSCI_RET_NOT_SUPPORTED

\* psci_features(psci_fid)
psci_features(psci_fid) ==
    IF psci_fid \in {PSCI_PSCI_FEATURES, PSCI_VERSION, PSCI_CPU_ON,
                     PSCI_CPU_OFF, PSCI_SYSTEM_SUSPEND, PSCI_SYSTEM_RESET}
    THEN PSCI_RET_SUCCESS
    ELSE PSCI_RET_NOT_SUPPORTED

features_call(fid) ==
    /\ sys.pc = "idle"
    /\ sys' = [Called("features") EXCEPT
                  !.fid = fid, !.pc = "ret", !.ret = psci_features(fid)]
    /\ UNCHANGED <<corevars, cru, dram_d, trng>>

\* system_reset_slow without its barrier.
system_reset_slow_NoDsb ==
    /\ sys.pc = "idle"
    /\ cru' = write32(cru, PLLS_SLOW_MODE, CRU_MODE_CON)
    /\ sys' = SysLogged([Called("system_reset") EXCEPT !.pc = "rst_trigger"],
                        <<Ev("write", CRU_MODE_CON, PLLS_SLOW_MODE)>>)
    /\ UNCHANGED <<corevars, dram_d, trng>>

\* psci_system_reset: write32(PLLS_SLOW_MODE, CRU_MODE_CON); dsb();
system_reset_slow ==
    /\ sys.pc = "idle"
    /\ cru' = write32(cru, PLLS_SLOW_MODE, CRU_MODE_CON)
    /\ sys' = SysLogged([Called("system_reset") EXCEPT !.pc = "rst_trigger"],
                        <<Ev("write", CRU_MODE_CON, PLLS_SLOW_MODE),
                          Ev("dsb", NoReg, Word32(0, 0))>>)
    /\ UNCHANGED <<corevars, dram_d, trng>>

\* write32(CRU_SNDRST_VAL, CRU_SNDRST_VAL_BASE); dsb();  the SoC resets.
system_reset_trigger ==
    /\ sys.pc = "rst_trigger"
    /\ cru' = write32(cru, CRU_SNDRST_VAL, CRU_SNDRST_VAL_BASE)
    /\ sys' = SysLogged([sys EXCEPT !.pc = "soc_reset"],
                        <<Ev("write", CRU_SNDRST_VAL_BASE, CRU_SNDRST_VAL),
                          Ev("dsb", NoReg, Word32(0, 0))>>)
    /\ UNCHANGED <<corevars, dram_d, trng>>

\* clks_gating_table
clks_gating_table ==
    <<61368, 4087, 65524, 34943, 48, 248, 2016, 49152,
      65412, 45127, 7328, 22527, 0, 255, 7360, 15>>

\* The order of the pll_power_down calls of plls_power_down, and of the
\* pll_power_up and pll_wait_lock calls of plls_restore.
PllDownOrder == <<GPLL_ID, CPLL_ID, APLL_ID>>
PllUpOrder == <<APLL_ID, GPLL_ID, CPLL_ID>>

Write(reg, w) == [reg |-> reg, w |-> w]

\* The divider writes of plls_power_down, in order.
PllsPowerDownWrites ==
    << Write(CRU_CLKSEL_CON(0), BITS_WITH_WMASK(0, 31, 0)),
       Write(CRU_CLKSEL_CON(1),
             WordOr(BITS_WITH_WMASK(0, 15, 0), BITS_WITH_WMASK(0, 7, 4))),
       Write(CRU_CLKSEL_CON(10),
             WordOr(BITS_WITH_WMASK(0, 31, 0),
                    WordOr(BITS_WITH_WMASK(0, 3, 8),
                           BITS_WITH_WMASK(0, 7, 12)))),
       Write(CRU_CLKSEL_CON(0), BITS_WITH_WMASK(0, 31, 8)),
       Write(CRU_CLKSEL_CON(1),
             WordOr(BITS_WITH_WMASK(0, 3, 8), BITS_WITH_WMASK(0, 7, 12))),
       Write(CRU_CLKSEL_CON(21),
             WordOr(BITS_WITH_WMASK(732, 16383, 0),
                    BITS_WITH_WMASK(2, 3, 14))) >>

\* PllsRestoreWrites restoring one bit less of a divider of CRU_CLKSEL_CON(1).
PllsRestoreWrites_NarrowMask(d) ==
    << Write(CRU_CLKSEL_CON(21),
             WordOr(d[CRU_CLKSEL_CON(21)],
                    WordOr(BITS_WMSK(16383, 0), BITS_WMSK(3, 14)))),
       Write(CRU_CLKSEL_CON(0),
             WordOr(d[CRU_CLKSEL_CON(0)], BITS_WMSK(31, 8))),
       Write(CRU_CLKSEL_CON(1),
             WordOr(d[CRU_CLKSEL_CON(1)],
                    WordOr(BITS_WMSK(3, 8), BITS_WMSK(7, 12)))),
       Write(CRU_CLKSEL_CON(10),
             WordOr(d[CRU_CLKSEL_CON(10)],
                    WordOr(BITS_WMSK(31, 0),
                           WordOr(BITS_WMSK(3, 8), BITS_WMSK(7, 12))))),
       Write(CRU_CLKSEL_CON(0),
             WordOr(d[CRU_CLKSEL_CON(0)], BITS_WMSK(31, 0))),
       Write(CRU_CLKSEL_CON(1),
             WordOr(d[CRU_CLKSEL_CON(1)],
                    WordOr(BITS_WMSK(15, 0), BITS_WMSK(3, 4)))),
       Write(CRU_MODE_CON,
             WordOr(d[CRU_MODE_CON], BITS_WMSK(1, PLL_MODE_BIT(APLL_ID)))),
       Write(CRU_MODE_CON,
             WordOr(d[CRU_MODE_CON], BITS_WMSK(1, PLL_MODE_BIT(CPLL_ID)))),
       Write(CRU_MODE_CON,
             WordOr(d[CRU_MODE_CON], BITS_WMSK(1, PLL_MODE_BIT(GPLL_ID)))) >>

\* The divider and mode writes of plls_restore from the snapshot d, in
\* order.
PllsRestoreWrites(d) ==
    << Write(CRU_CLKSEL_CON(21),
             WordOr(d[CRU_CLKSEL_CON(21)],
                    WordOr(BITS_WMSK(16383, 0), BITS_WMSK(3, 14)))),
       Write(CRU_CLKSEL_CON(0),
             WordOr(d[CRU_CLKSEL_CON(0)], BITS_WMSK(31, 8))),
       Write(CRU_CLKSEL_CON(1),
             WordOr(d[CRU_CLKSEL_CON(1)],
                    WordOr(BITS_WMSK(3, 8), BITS_WMSK(7, 12)))),
       Write(CRU_CLKSEL_CON(10),
             WordOr(d[CRU_CLKSEL_CON(10)],
                    WordOr(BITS_WMSK(31, 0),
                           WordOr(BITS_WMSK(3, 8), BITS_WMSK(7, 12))))),
       Write(CRU_CLKSEL_CON(0),
             WordOr(d[CRU_CLKSEL_CON(0)], BITS_WMSK(31, 0))),
       Write(CRU_CLKSEL_CON(1),
             WordOr(d[CRU_CLKSEL_CON(1)],
                    WordOr(BITS_WMSK(15, 0), BITS_WMSK(7, 4)))),
       Write(CRU_MODE_CON,
             WordOr(d[CRU_MODE_CON], BITS_WMSK(1, PLL_MODE_BIT(APLL_ID)))),
       Write(CRU_MODE_CON,
             WordOr(d[CRU_MODE_CON], BITS_WMSK(1, PLL_MODE_BIT(CPLL_ID)))),
       Write(CRU_MODE_CON,
             WordOr(d[CRU_MODE_CON], BITS_WMSK(1, PLL_MODE_BIT(GPLL_ID)))) >>

NoWord == Word32(0, 0)

\* psci_system_suspend is entered.
system_suspend_enter ==
    /\ sys.pc = "idle"
    /\ sys' = [Called("system_suspend") EXCEPT !.pc = "clks_disable"]
    /\ UNCHANGED <<corevars, cru, dram_d, trng>>

\* clks_disable writing the gate register before it saves it.
clks_disable_WriteFirst ==
    /\ sys.pc = "clks_disable"
    /\ LET reg == CRU_CLKGATE_CON(sys.i)
           w == BITS_WITH_WMASK(clks_gating_table[sys.i + 1], 65535, 0)
           last == (sys.i + 1 = CRU_CLKGATE_CON_CNT)
       IN  /\ cru' = write32(cru, w, reg)
           /\ dram_d' = [dram_d EXCEPT ![reg] = read32(cru', reg)]
           /\ sys' = SysLogged(
                  [sys EXCEPT !.i = IF last THEN 0 ELSE sys.i + 1,
                              !.pc = IF last THEN "plls_save" ELSE @,
                              !.saved = @ \cup {reg}],
                  <<Ev("write", reg, w), Ev("save", reg, NoWord)>>)
    /\ UNCHANGED <<corevars, trng>>

\* clks_disable, one turn of its loop: save the gate register, then gate
\* the clocks of the table.
clks_disable ==
    /\ sys.pc = "clks_disable"
    /\ LET reg == CRU_CLKGATE_CON(sys.i)
           w == BITS_WITH_WMASK(clks_gating_table[sys.i + 1], 65535, 0)
           last == (sys.i + 1 = CRU_CLKGATE_CON_CNT)
       IN  /\ dram_d' = [dram_d EXCEPT ![reg] = read32(cru, reg)]
           /\ cru' = write32(cru, w, reg)
           /\ sys' = SysLogged(
                  [sys EXCEPT !.i = IF last THEN 0 ELSE sys.i + 1,
                              !.pc = IF last THEN "plls_save" ELSE @,
                              !.saved = @ \cup {reg}],
                  <<Ev("save", reg, NoWord), Ev("write", reg, w)>>)
    /\ UNCHANGED <<corevars, trng>>

\* The fields plls_power_down saves, in order.
PllsSaveOrder ==
    <<CRU_CLKSEL_CON(0), CRU_CLKSEL_CON(1), CRU_CLKSEL_CON(10),
      CRU_CLKSEL_CON(21), CRU_MODE_CON>>

\* plls_power_down: the five reads into the snapshot.
plls_power_down_save ==
    /\ sys.pc = "plls_save"
    /\ LET regs == { PllsSaveOrder[k] : k \in 1 .. Len(PllsSaveOrder) }
       IN  /\ dram_d' = [r \in DramDataRegs |->
                            IF r \in regs THEN read32(cru, r) ELSE dram_d[r]]
           /\ sys' = SysLogged(
                  [sys EXCEPT !.pc = "pll_down", !.i = 1,
                              !.saved = @ \cup regs],
                  [k \in 1 .. Len(PllsSaveOrder) |->
                      Ev("save", PllsSaveOrder[k], NoWord)])
    /\ UNCHANGED <<corevars, cru, trng>>

\* pll_power_down asserting the power-down bit before it selects slow mode.
pll_power_down_PowerFirst(pll) ==
    /\ sys.pc = "pll_down"
    /\ pll = PllDownOrder[sys.i]
    /\ LET last == (sys.i = Len(PllDownOrder))
       IN  /\ cru' = write32(write32(cru, PLL_POWER_DOWN, CRU_PLL_CON1(pll)),
                             PLL_SLOW_MODE(pll), CRU_MODE_CON)
           /\ sys' = SysLogged(
                  [sys EXCEPT !.i = IF last THEN 1 ELSE sys.i + 1,
                              !.pc = IF last THEN "plls_down_writes" ELSE @],
                  <<Ev("write", CRU_PLL_CON1(pll), PLL_POWER_DOWN),
                    Ev("write", CRU_MODE_CON, PLL_SLOW_MODE(pll))>>)
    /\ UNCHANGED <<corevars, dram_d, trng>>

\* pll_power_down(pll), called for the PLLs of PllDownOrder in turn.
pll_power_down(pll) ==
    /\ sys.pc = "pll_down"
    /\ pll = PllDownOrder[sys.i]
    /\ LET last == (sys.i = Len(PllDownOrder))
       IN  /\ cru' = write32(write32(cru, PLL_SLOW_MODE(pll), CRU_MODE_CON),
                             PLL_POWER_DOWN, CRU_PLL_CON1(pll))
           /\ sys' = SysLogged(
                  [sys EXCEPT !.i = IF last THEN 1 ELSE sys.i + 1,
                              !.pc = IF last THEN "plls_down_writes" ELSE @],
                  <<Ev("write", CRU_MODE_CON, PLL_SLOW_MODE(pll)),
                    Ev("write", CRU_PLL_CON1(pll), PLL_POWER_DOWN)>>)
    /\ UNCHANGED <<corevars, dram_d, trng>>

\* plls_power_down: the next of its divider writes.
plls_power_down_write ==
    /\ sys.pc = "plls_down_writes"
    /\ LET wr == PllsPowerDownWrites[sys.i]
           last == (sys.i = Len(PllsPowerDownWrites))
       IN  /\ cru' = write32(cru, wr.w, wr.reg)
           /\ sys' = SysLogged(
                  [sys EXCEPT !.i = IF last THEN 0 ELSE sys.i + 1,
                              !.pc = IF last THEN "cache_op" ELSE @],
                  <<Ev("write", wr.reg, wr.w)>>)
    /\ UNCHANGED <<corevars, dram_d, trng>>

\* system_suspend_cache_op going to sleep without the cache operation.
system_suspend_cache_op_Skipped ==
    /\ sys.pc = "cache_op"
    /\ sys' = [sys EXCEPT !.pc = "wfi"]
    /\ UNCHANGED <<corevars, cru, dram_d, trng>>

\* cache_op_inner(DCACHE_CLEAN_INV, NULL, 0)
system_suspend_cache_op ==
    /\ sys.pc = "cache_op"
    /\ sys' = SysLogged([sys EXCEPT !.pc = "wfi"],
                        <<Ev("dcache_clean_inv", NoReg, NoWord)>>)
    /\ UNCHANGED <<corevars, cru, dram_d, trng>>

\* wfi(): the core sleeps and wakes.
system_suspend_wfi ==
    /\ sys.pc = "wfi"
    /\ sys' = SysLogged([sys EXCEPT !.pc = "pll_up", !.i = 1],
                        <<Ev("wfi", NoReg, NoWord)>>)
    /\ UNCHANGED <<corevars, cru, dram_d, trng>>

\* pll_power_up(pll), called for the PLLs of PllUpOrder in turn; udelay(200)
\* follows the last.
pll_power_up(pll) ==
    /\ sys.pc = "pll_up"
    /\ pll = PllUpOrder[sys.i]
    /\ LET last == (sys.i = Len(PllUpOrder))
       IN  /\ cru' = write32(cru, PLL_POWER_UP, CRU_PLL_CON1(pll))
           /\ sys' = SysLogged(
                  [sys EXCEPT !.i = IF last THEN 1 ELSE sys.i + 1,
                              !.pc = IF last THEN "pll_wait" ELSE @,
                              !.loop = 0, !.nolock = TRUE],
                  <<Ev("write", CRU_PLL_CON1(pll), PLL_POWER_UP)>>
                  \o (IF last THEN <<Ev("udelay", NoReg, NoWord)>>
                      ELSE <<>>))
    /\ UNCHANGED <<corevars, dram_d, trng>>

\* read32(CRU_PLL_CON1(pll)) & PLL_LOCK
LockRead(lock) == Word32(0, IF lock THEN PLL_LOCK ELSE 0)

\* pll_wait_lock(pll): the loop condition, lock being the PLL_LOCK bit of
\* its read of CRU_PLL_CON1(pll), and one turn of the loop.
pll_wait_lock_poll(pll, lock) ==
    /\ sys.pc = "pll_wait"
    /\ pll = PllUpOrder[sys.i]
    /\ sys' = IF ~lock /\ sys.loop < PLL_LOCK_LOOPS
              THEN [sys EXCEPT !.loop = @ + 1]
              ELSE [sys EXCEPT !.pc = "pll_check", !.nolock = @ /\ ~lock]
    /\ UNCHANGED <<corevars, cru, dram_d, trng>>

\* pll_wait_lock_check returning although the PLL is not locked.
pll_wait_lock_check_NoPanic(pll, lock) ==
    /\ sys.pc = "pll_check"
    /\ pll = PllUpOrder[sys.i]
    /\ LET last == (sys.i = Len(PllUpOrder))
       IN  sys' = SysLogged(
                  [sys EXCEPT !.i = IF last THEN 1 ELSE sys.i + 1,
                              !.pc = IF last THEN "plls_restore_writes"
                                     ELSE "pll_wait",
                              !.loop = 0, !.nolock = TRUE],
                  <<Ev("pll_check", CRU_PLL_CON1(pll), LockRead(lock))>>)
    /\ UNCHANGED <<corevars, cru, dram_d, trng>>

\* pll_wait_lock(pll): the read after the loop; panic() when the PLL is not
\* locked, else the function returns.
pll_wait_lock_check(pll, lock) ==
    /\ sys.pc = "pll_check"
    /\ pll = PllUpOrder[sys.i]
    /\ LET last == (sys.i = Len(PllUpOrder))
       IN  sys' = IF ~lock
                  THEN SysLogged([sys EXCEPT !.pc = "panic"],
                                 <<Ev("pll_check", CRU_PLL_CON1(pll),
                                      LockRead(lock)),
                                   Ev("panic", CRU_PLL_CON1(pll), NoWord)>>)
                  ELSE SysLogged(
                         [sys EXCEPT !.i = IF last THEN 1 ELSE sys.i + 1,
                                     !.pc = IF last THEN "plls_restore_writes"
                                            ELSE "pll_wait",
                                     !.loop = 0, !.nolock = TRUE],
                         <<Ev("pll_check", CRU_PLL_CON1(pll),
                              LockRead(lock))>>)
    /\ UNCHANGED <<corevars, cru, dram_d, trng>>

\* plls_restore: the next of its divider and mode writes.
plls_restore_write ==
    /\ sys.pc = "plls_restore_writes"
    /\ \E writes \in {PllsRestoreWrites(dram_d)} :
       \E wr \in {writes[sys.i]} :
       LET last == (sys.i = Len(writes))
       IN  /\ cru' = write32(cru, wr.w, wr.reg)
           /\ sys' = SysLogged(
                  [sys EXCEPT !.i = IF last THEN 0 ELSE sys.i + 1,
                              !.pc = IF last THEN "clks_restore" ELSE @],
                  <<Ev("write", wr.reg, wr.w)>>)
    /\ UNCHANGED <<corevars, dram_d, trng>>

\* clks_restore, one turn of its loop; return PSCI_RET_SUCCESS follows the
\* last.
clks_restore ==
    /\ sys.pc = "clks_restore"
    /\ LET reg == CRU_CLKGATE_CON(sys.i)
           \* BITS_WITH_WMASK(dram_d.cru_clkgate[i], 0xffff, 0)
           w == WordOr(dram_d[reg], BITS_WMSK(65535, 0))
           last == (sys.i + 1 = CRU_CLKGATE_CON_CNT)
       IN  /\ cru' = write32(cru, w, reg)
           /\ sys' = SysLogged(
                  [sys EXCEPT !.i = IF last THEN 0 ELSE sys.i + 1,
                              !.pc = IF last THEN "ret" ELSE @,
                              !.ret = PSCI_RET_SUCCESS],
                  <<Ev("write", reg, w)>>)
    /\ UNCHANGED <<corevars, dram_d, trng>>

\* The call returns to the normal world.
sys_return ==
    /\ sys.pc = "ret"
    /\ sys' = IdleSys
    /\ UNCHANGED <<corevars, cru, dram_d, trng>>

\* The calls that only compute a result (SpecFn): psci_affinity_info and
\* psci_features on every argument and status read of the input sets.
InitFn ==
    /\ booted = TRUE
    /\ softrst = BitAnd(NONBOOT_CORES_SOFT_RESET, 65535)
    /\ ns_entry_addrs = [c \in Cores |-> Word32(0, 0)]
    /\ isram = [o \in {BOOT_ADDR_OFFSET, LOCK_ADDR_OFFSET} |-> Word32(0, 0)]
    /\ ctx = [p \in Procs |-> IdleCtx]
    /\ \E k \in {0, Len(RegPatterns) - 1} : cru = CruBoot(k)
    /\ dram_d = DramBoot
    /\ sys = IdleSys
    /\ trng = IdleRng

NextFn ==
    \/ \E a \in AffinityArgs, v \in AffStatusReads : affinity_info_call(a, v)
    \/ \E fid \in FidArgs : features_call(fid)
    \/ sys_return

SpecFn == InitFn /\ [][NextFn]_vars

\* The calls that write registers (SpecSys): psci_system_reset and
\* psci_system_suspend.
NextSys ==
    \/ system_reset_slow
    \/ system_reset_trigger
    \/ system_suspend_enter
    \/ clks_disable
    \/ plls_power_down_save
    \/ \E pll \in SuspendPlls : pll_power_down(pll)
    \/ plls_power_down_write
    \/ system_suspend_cache_op
    \/ system_suspend_wfi
    \/ \E pll \in SuspendPlls : pll_power_up(pll)
    \/ \E pll \in SuspendPlls, lock \in BOOLEAN : pll_wait_lock_poll(pll, lock)
    \/ \E pll \in SuspendPlls, lock \in BOOLEAN : pll_wait_lock_check(pll, lock)
    \/ plls_restore_write
    \/ clks_restore
    \/ sys_return

SpecSys == InitSys /\ [][NextSys]_vars

(***************************************************************************)
(* The calls that poll the hardware (SpecTerm): one core, after the late   *)
(* init, calls psci_cpu_on and psci_system_suspend, one call at a time;    *)
(* every status read is free.                                              *)
(***************************************************************************)
TermProc == CHOOSE p \in Procs : \A q \in Procs : p <= q

TermEntries == {Word32(32784, 0)}

InitTerm ==
    /\ booted = TRUE
    /\ softrst = BitAnd(NONBOOT_CORES_SOFT_RESET, 65535)
    /\ ns_entry_addrs = [c \in Cores |-> Word32(0, 0)]
    /\ isram = [o \in {BOOT_ADDR_OFFSET, LOCK_ADDR_OFFSET} |-> Word32(0, 0)]
    /\ ctx = [p \in Procs |-> IdleCtx]
    /\ cru = CruBoot(1)
    /\ dram_d = DramBoot
    /\ sys = IdleSys
    /\ trng = IdleRng

\* The steps of a psci_cpu_on call in flight.
StepOn(p) ==
    \/ on_set_entry(p)
    \/ on_held_check(p)
    \/ \E v \in StatusReads : wait_core_wfe_i_poll(p, v)
    \/ \E v \in StatusReads : wait_core_wfe_i_return(p, v)
    \/ on_assert(p)
    \/ on_release(p)
    \/ on_boot(p)
    \/ on_lock(p)
    \/ on_sev(p)
    \/ on_success(p)

\* The steps of plls_restore and clks_restore, the resume half of
\* psci_system_suspend.
StepResume ==
    \/ \E pll \in SuspendPlls : pll_power_up(pll)
    \/ \E pll \in SuspendPlls, lock \in BOOLEAN : pll_wait_lock_poll(pll, lock)
    \/ \E pll \in SuspendPlls, lock \in BOOLEAN : pll_wait_lock_check(pll, lock)
    \/ plls_restore_write
    \/ clks_restore

NextTerm ==
    \/ /\ sys.pc = "idle"
       /\ \E a \in CoreIdxArgs, e \in TermEntries :
              psci_cpu_on_enter(TermProc, a, e)
    \/ StepOn(TermProc)
    \/ Return(TermProc)
    \/ ctx[TermProc].pc = "idle" /\ system_suspend_enter
    \/ clks_disable
    \/ plls_power_down_save
    \/ \E pll \in SuspendPlls : pll_power_down(pll)
    \/ plls_power_down_write
    \/ system_suspend_cache_op
    \/ system_suspend_wfi
    \/ StepResume
    \/ sys_return

SpecTerm == InitTerm /\ [][NextTerm]_vars

(***************************************************************************)
(* Properties of one psci_cpu_on / psci_cpu_off call (Spec).               *)
(***************************************************************************)
Has(log, e) == \E i \in 1 .. Len(log) : log[i] = e

\* The first place of event e in log, 0 when it is not there.
Pos(log, e) ==
    IF Has(log, e) THEN CHOOSE i \in 1 .. Len(log) :
                            log[i] = e /\ \A j \in 1 .. (i - 1) : log[j] # e
    ELSE 0

Count(log, e) == Cardinality({i \in 1 .. Len(log) : log[i] = e})

\* Register and handoff writes and the event broadcast, as logged.
NoHwWrite(log) ==
    \A e \in {"assert", "release", "boot", "lock", "sev"} : ~Has(log, e)

OnCall(p) == ctx[p].op = "cpu_on"
OffCall(p) == ctx[p].op = "cpu_off"

\* The core id the caller passed is 0 or beyond the last core.
ArgOutOfRange(a) == (a = 0) \/ (a >= CFG_TEE_CORE_NB_CORE)

\* The affinity-0 field of the argument is 0 or beyond the last core.
LowFieldOutOfRange(a) ==
    LET lo == a % (MPIDR_CPU_MASK + 1)
    IN  (lo = 0) \/ (lo >= CFG_TEE_CORE_NB_CORE)

\* C1 as claimed: for every core_id that is 0 or >= N, psci_cpu_on returns
\* INVALID_PARAMETERS and performs no reset-control write, no SRAM handoff
\* write and no event broadcast.
C1_AsClaimed ==
    \A p \in Procs :
        (OnCall(p) /\ ArgOutOfRange(ctx[p].arg)) =>
            /\ NoHwWrite(ctx[p].log)
            /\ ctx[p].pc = "ret"
            /\ ctx[p].ret = PSCI_RET_INVALID_PARAMETERS

\* C1 as amended: for every core_id whose low 8 bits (core_id &
\* MPIDR_CPU_MASK) are 0 or >= N, psci_cpu_on returns INVALID_PARAMETERS at
\* once, with no entry-table write, no reset-control write, no SRAM handoff
\* write and no event broadcast; the reset-control register and the entry
\* table slot are as they were at the call.
C1_InvalidLowField ==
    \A p \in Procs :
        (OnCall(p) /\ LowFieldOutOfRange(ctx[p].arg)) =>
            /\ ctx[p].pc = "ret"
            /\ ctx[p].ret = PSCI_RET_INVALID_PARAMETERS
            /\ ctx[p].log = <<>>
            /\ softrst = ctx[p].rst0

C1_Witness ==
    \E p \in Procs :
        /\ OnCall(p) /\ ctx[p].pc = "ret"
        /\ ctx[p].arg >= CFG_TEE_CORE_NB_CORE
        /\ ctx[p].ret = PSCI_RET_INVALID_PARAMETERS

\* C2: in every psci_cpu_on call the entry-table slot of the target is
\* written first, then the reset-assert write, then a barrier, then the
\* reset-release write, each once; no reset write precedes the entry write
\* and no release precedes the assert and a barrier after it.
C2_WriteOrder ==
    \A p \in Procs :
        OnCall(p) =>
            LET log == ctx[p].log IN
            /\ \A e \in {"entry", "assert", "release"} : Count(log, e) <= 1
            /\ Has(log, "assert") =>
                   /\ Pos(log, "entry") = 1
                   /\ ns_entry_addrs[ctx[p].core_idx] = ctx[p].entry
            /\ Has(log, "release") =>
                   /\ Has(log, "assert")
                   /\ Pos(log, "entry") < Pos(log, "assert")
                   /\ \E k \in 1 .. Len(log) :
                          /\ log[k] = "dsb"
                          /\ Pos(log, "assert") < k
                          /\ k < Pos(log, "release")

C2_Witness ==
    \E p \in Procs : OnCall(p) /\ Has(ctx[p].log, "release")

\* The bits of the reset-control register other than core's reset bit.
OtherBits(reg, core) == BitAnd(reg, 65535 - CORE_HELD_IN_RESET(core))

\* C3: during psci_cpu_on for target c every bit of the reset-control
\* register other than c's reset bit keeps the value it had at the call,
\* after the assert write and after the release write; c's bit is set by the
\* assert write and cleared by the release write.
C3_OnlyTargetBit ==
    \A p \in Procs :
        OnCall(p) =>
            /\ OtherBits(softrst, ctx[p].core_idx)
                   = OtherBits(ctx[p].rst0, ctx[p].core_idx)
            /\ ctx[p].pc = "on_release" => core_held_in_reset(ctx[p].core_idx)
            /\ Has(ctx[p].log, "release") =>
                   ~core_held_in_reset(ctx[p].core_idx)

C3_Witness ==
    \E p \in Procs :
        /\ OnCall(p) /\ Has(ctx[p].log, "release")
        /\ OtherBits(ctx[p].rst0, ctx[p].core_idx) >= 65295
        /\ \E c \in Cores \ {0, ctx[p].core_idx} : core_held_in_reset(c)

\* C4: a psci_cpu_on whose target is not held in reset polls the status
\* once; when no read of that poll sees the wait bit the call returns DENIED
\* having written only the entry slot.  A target held in reset skips the
\* poll.
C4_PreWaitDenied ==
    \A p \in Procs :
        OnCall(p) =>
            /\ (ctx[p].pc = "ret" /\ ctx[p].prewait = "unseen") =>
                   /\ ctx[p].ret = PSCI_RET_DENIED
                   /\ ctx[p].log = <<"entry">>
            /\ (ctx[p].prewait = "unseen") => ctx[p].pc = "ret"
            /\ ctx[p].held => ctx[p].prewait = "skipped"
            /\ (ctx[p].prewait = "skipped") =>
                   BitAnd(ctx[p].rst0, CORE_HELD_IN_RESET(ctx[p].core_idx)) # 0

C4_Witness ==
    \E p \in Procs :
        /\ OnCall(p) /\ ctx[p].pc = "ret"
        /\ ctx[p].prewait = "unseen"
        /\ ctx[p].loop = WfeLoopMax
        /\ ctx[p].ret = PSCI_RET_DENIED

\* C5: the handoff record is written, and the event broadcast, only after
\* the reset-release write and a poll after it that reported the wait state;
\* when that poll reports no wait state the call returns DENIED with the
\* handoff record unwritten and no event broadcast.
C5_HandoffAfterRelease ==
    \A p \in Procs :
        OnCall(p) =>
            LET log == ctx[p].log IN
            /\ (Has(log, "boot") \/ Has(log, "lock") \/ Has(log, "sev")
                \/ ctx[p].pc = "on_boot") =>
                   /\ Has(log, "release")
                   /\ ctx[p].site = "post" /\ ctx[p].wfei
                   /\ \A e \in {"boot", "lock", "sev"} :
                          Has(log, e) => Pos(log, "release") < Pos(log, e)
            /\ (ctx[p].pc = "ret" /\ ctx[p].site = "post" /\ ~ctx[p].wfei) =>
                   /\ ctx[p].ret = PSCI_RET_DENIED
                   /\ ~Has(log, "boot") /\ ~Has(log, "lock") /\ ~Has(log, "sev")

C5_Witness ==
    \E p \in Procs :
        /\ OnCall(p) /\ ctx[p].pc = "ret"
        /\ ctx[p].site = "post" /\ ~ctx[p].wfei
        /\ Has(ctx[p].log, "release")
        /\ ctx[p].ret = PSCI_RET_DENIED

\* C6: on the success path the boot-address word is written, then the lock
\* tag, then a barrier is executed, then the event is broadcast; SUCCESS is
\* returned only after the broadcast.
C6_FinalOrder ==
    \A p \in Procs :
        OnCall(p) =>
            LET log == ctx[p].log IN
            /\ \A e \in {"boot", "lock", "sev"} : Count(log, e) <= 1
            /\ Has(log, "lock") => Has(log, "boot") /\ Pos(log, "boot") < Pos(log, "lock")
            /\ Has(log, "sev") =>
                   /\ Has(log, "lock")
                   /\ \E k \in 1 .. Len(log) :
                          /\ log[k] = "dsb"
                          /\ Pos(log, "lock") < k
                          /\ k < Pos(log, "sev")
            /\ (ctx[p].pc = "ret" /\ ctx[p].ret = PSCI_RET_SUCCESS) =>
                   Has(log, "sev")

C6_Witness ==
    \E p \in Procs :
        OnCall(p) /\ ctx[p].pc = "ret" /\ ctx[p].ret = PSCI_RET_SUCCESS

\* C7: a psci_cpu_on(c, e) with 1 <= c < N whose target was held in reset at
\* the call and reported the wait state after the release returns SUCCESS,
\* leaves e in entry-table slot c, and leaves core c not held in reset.
C7_SuccessScenario ==
    \A p \in Procs :
        ( /\ OnCall(p) /\ ctx[p].pc = "ret"
          /\ ctx[p].arg \in 1 .. (CFG_TEE_CORE_NB_CORE - 1)
          /\ BitAnd(ctx[p].rst0, CORE_HELD_IN_RESET(ctx[p].arg)) # 0
          /\ ctx[p].site = "post" /\ ctx[p].wfei ) =>
            /\ ctx[p].ret = PSCI_RET_SUCCESS
            /\ ns_entry_addrs[ctx[p].arg] = ctx[p].entry
            /\ BitAnd(softrst, CORE_HELD_IN_RESET(ctx[p].arg)) = 0

C7_Witness ==
    \E p \in Procs :
        /\ OnCall(p) /\ ctx[p].pc = "ret"
        /\ ctx[p].arg = 2 /\ ctx[p].entry = Word32(32784, 0)
        /\ BitAnd(ctx[p].rst0, CORE_HELD_IN_RESET(2)) # 0
        /\ ctx[p].ret = PSCI_RET_SUCCESS
        /\ ns_entry_addrs[2] = Word32(32784, 0)

\* C8 as claimed: after psci_cpu_on(2, 0x80100000, 0) returns SUCCESS the
\* handoff record holds 0x80100000 at the boot-address offset and the lock
\* tag at the lock offset.
C8_AsClaimed ==
    \A p \in Procs :
        ( /\ OnCall(p) /\ ctx[p].pc = "ret"
          /\ ctx[p].ret = PSCI_RET_SUCCESS
          /\ ctx[p].arg = 2 /\ ctx[p].entry = Word32(32784, 0) ) =>
            /\ isram[BOOT_ADDR_OFFSET] = Word32(32784, 0)
            /\ isram[LOCK_ADDR_OFFSET] = LOCK_TAG

\* C8 as amended: after a psci_cpu_on that returns SUCCESS, whatever its
\* entry argument, the handoff record holds the secure load address
\* CFG_TEE_LOAD_ADDR at the boot-address offset and the lock tag at the lock
\* offset.
C8_HandoffRecord ==
    \A p \in Procs :
        (OnCall(p) /\ ctx[p].pc = "ret" /\ ctx[p].ret = PSCI_RET_SUCCESS) =>
            /\ isram[BOOT_ADDR_OFFSET] = CFG_TEE_LOAD_ADDR
            /\ isram[LOCK_ADDR_OFFSET] = LOCK_TAG

C8_Witness ==
    \E p \in Procs :
        /\ OnCall(p) /\ ctx[p].pc = "ret"
        /\ ctx[p].ret = PSCI_RET_SUCCESS
        /\ ctx[p].arg = 2 /\ ctx[p].entry = Word32(32784, 0)
        /\ isram[BOOT_ADDR_OFFSET] = Word32(26688, 0)

\* C10: psci_cpu_off on core 0 or on a core >= N returns INVALID_PARAMETERS
\* without the power-down preparation, without masking exceptions and
\* without a wait-for-interrupt; on any other core it never returns.
C10_CpuOff ==
    \A p \in Procs :
        OffCall(p) =>
            /\ ArgOutOfRange(ctx[p].arg) =>
                   /\ ctx[p].pc = "ret"
                   /\ ctx[p].ret = PSCI_RET_INVALID_PARAMETERS
                   /\ ctx[p].log = <<>>
            /\ ~ArgOutOfRange(ctx[p].arg) =>
                   ctx[p].pc \in {"off_prepare", "off_mask", "off_wfi"}

C10_Witness ==
    \E p \in Procs :
        /\ OffCall(p) /\ ctx[p].pc = "ret"
        /\ ctx[p].arg >= CFG_TEE_CORE_NB_CORE
        /\ ctx[p].ret = PSCI_RET_INVALID_PARAMETERS

\* C11 as claimed: on a valid non-boot core psci_cpu_off masks all
\* exceptions, then runs the power-down preparation, then spins on
\* wait-for-interrupt; the preparation never runs with exceptions unmasked.
C11_AsClaimed ==
    \A p \in Procs :
        OffCall(p) =>
            LET log == ctx[p].log IN
            /\ Has(log, "psci_armv7_cpu_off") =>
                   /\ Has(log, "mask")
                   /\ Pos(log, "mask") < Pos(log, "psci_armv7_cpu_off")
            /\ Has(log, "wfi") =>
                   Pos(log, "psci_armv7_cpu_off") < Pos(log, "wfi")

\* C11 as amended: on a valid non-boot core psci_cpu_off runs the power-down
\* preparation first, then masks all exceptions, then spins on
\* wait-for-interrupt, each of the first two once; the preparation runs
\* before this call has masked exceptions.
C11_PrepareMaskSpin ==
    \A p \in Procs :
        OffCall(p) =>
            LET log == ctx[p].log IN
            /\ Count(log, "psci_armv7_cpu_off") <= 1 /\ Count(log, "mask") <= 1
            /\ Has(log, "mask") =>
                   /\ Has(log, "psci_armv7_cpu_off")
                   /\ Pos(log, "psci_armv7_cpu_off") < Pos(log, "mask")
            /\ Has(log, "wfi") =>
                   /\ Has(log, "mask")
                   /\ Pos(log, "mask") < Pos(log, "wfi")
            /\ ctx[p].pc = "off_wfi" => Has(log, "mask")

C11_Witness ==
    \E p \in Procs :
        /\ OffCall(p)
        /\ ctx[p].log = <<"psci_armv7_cpu_off", "mask", "wfi">>

\* The power-down preparation of this psci_cpu_off call has run and failed.
PrepFailed(p) ==
    OffCall(p) /\ Has(ctx[p].log, "psci_armv7_cpu_off") /\ ~ctx[p].prep_ok

\* C12 as claimed: when the power-down preparation fails psci_cpu_off falls
\* through: it does not spin on wait-for-interrupt, and it returns
\* INTERNAL_FAILURE.
C12_AsClaimed ==
    \A p \in Procs :
        PrepFailed(p) =>
            /\ ~Has(ctx[p].log, "wfi")
            /\ ctx[p].pc = "ret" => ctx[p].ret = PSCI_RET_INTERNAL_FAILURE

\* C12 as amended: psci_cpu_off does not look at the outcome of the
\* power-down preparation: when it fails the call still masks exceptions and
\* spins on wait-for-interrupt, and no psci_cpu_off call returns
\* INTERNAL_FAILURE.
C12_FailureIgnored ==
    \A p \in Procs :
        /\ OffCall(p) => ctx[p].ret # PSCI_RET_INTERNAL_FAILURE
        /\ PrepFailed(p) => ctx[p].pc \in {"off_mask", "off_wfi"}

C12_Witness ==
    \E p \in Procs :
        /\ PrepFailed(p)
        /\ ctx[p].pc = "off_wfi"
        /\ Has(ctx[p].log, "wfi")

\* C20 as claimed: wait_core_wfe_i polls at most the bound and returns true
\* exactly when one of its reads of the status register saw the bit set.
C20_AsClaimed ==
    \A p \in Procs :
        OnCall(p) =>
            /\ ctx[p].loop <= WfeLoopMax
            /\ (ctx[p].site # "none"
                /\ ctx[p].pc \notin {"wfe_loop", "wfe_return"}) =>
                   (ctx[p].wfei <=> ctx[p].seen)

\* A wait whose loop ended on a read that saw the bit set and whose result
\* is false.
C20_SeenButFalse ==
    \E p \in Procs :
        /\ OnCall(p) /\ ctx[p].pc = "ret"
        /\ ctx[p].site # "none"
        /\ ctx[p].seen /\ ~ctx[p].wfei
        /\ ctx[p].loop < WfeLoopMax

\* The slots of the entry-address table change only by the store of a
\* psci_cpu_on call that has passed the range check, in the slot of its
\* target, to its entry.
SlotsChangeByStore ==
    \A c \in Cores :
        ns_entry_addrs'[c] # ns_entry_addrs[c] =>
            \E p \in Procs :
                /\ OnCall(p) /\ ctx[p].pc = "on_set_entry"
                /\ ctx[p].core_idx = c
                /\ ctx[p].site = "none" /\ ctx[p].prewait = "none"
                /\ ns_entry_addrs'[c] = ctx[p].entry
                /\ ctx'[p].pc = "on_held_check"

\* Once a psci_cpu_on call has stored its entry, the slot of its target
\* holds it until the call returns, with SUCCESS or with DENIED; the store
\* is the first thing the call does; a call that returns INVALID_PARAMETERS
\* has done nothing.
EntryStored ==
    \A p \in Procs :
        OnCall(p) =>
            /\ ctx[p].log # <<>> =>
                   /\ ctx[p].log[1] = "entry"
                   /\ ns_entry_addrs[ctx[p].core_idx] = ctx[p].entry
            /\ (ctx[p].pc = "ret"
                /\ ctx[p].ret \in {PSCI_RET_SUCCESS, PSCI_RET_DENIED}) =>
                   /\ Has(ctx[p].log, "entry")
                   /\ ns_entry_addrs[ctx[p].core_idx] = ctx[p].entry
            /\ (ctx[p].pc = "ret"
                /\ ctx[p].ret = PSCI_RET_INVALID_PARAMETERS) =>
                   ctx[p].log = <<>>

\* C24: for a valid core id c psci_cpu_on stores the entry in slot c before
\* any status check, so slot c holds it whether the call returns SUCCESS or
\* DENIED; no other slot is modified by the call, and a call that returns
\* INVALID_PARAMETERS modifies no slot.
C24_EntryFrame == [] EntryStored /\ [][SlotsChangeByStore]_vars

\* A call denied by the wait before the reset, its entry in the slot of its
\* target and another slot holding a different entry.
C24_Witness ==
    \E p \in Procs :
        /\ OnCall(p) /\ ctx[p].pc = "ret" /\ ctx[p].ret = PSCI_RET_DENIED
        /\ ~Has(ctx[p].log, "assert")
        /\ ns_entry_addrs[ctx[p].core_idx] = ctx[p].entry
        /\ \E c \in Cores \ {0, ctx[p].core_idx} :
               ~Untargeted(c) /\ ns_entry_addrs[c] # ctx[p].entry

\* The non-boot cores.
NonBootCores == Cores \ {0}

\* After the late init the boot core is not held in reset, and a non-boot
\* core no psci_cpu_on has targeted is; a psci_cpu_on call that is the first
\* for its target finds it held, skips the wait before the reset, and is
\* not denied before the reset-assert write.
HeldUntilTargeted ==
    /\ booted =>
           /\ ~core_held_in_reset(0)
           /\ \A c \in NonBootCores : Untargeted(c) => core_held_in_reset(c)
    /\ \A p \in Procs :
           (OnCall(p) /\ ctx[p].first /\ ctx[p].pc # "on_held_check") =>
               /\ ctx[p].held
               /\ ctx[p].prewait = "skipped"
               /\ (ctx[p].pc = "ret" /\ ctx[p].ret = PSCI_RET_DENIED) =>
                      Has(ctx[p].log, "assert")

\* The late init leaves every non-boot core held in reset, and the reset of
\* a non-boot core is released only by the release write of a psci_cpu_on
\* call for that core.
HeldUntilReleased ==
    /\ (~booted /\ booted') =>
           \A c \in NonBootCores :
               BitAnd(softrst', CORE_HELD_IN_RESET(c)) # 0
    /\ \A c \in NonBootCores :
           (booted /\ core_held_in_reset(c)
            /\ BitAnd(softrst', CORE_HELD_IN_RESET(c)) = 0) =>
               \E p \in Procs :
                   /\ OnCall(p) /\ ctx[p].pc = "on_release"
                   /\ ctx[p].core_idx = c

\* C25: after reset_nonboot_cores and until a psci_cpu_on targets it, every
\* non-boot core is held in reset and the boot core is not; the first
\* psci_cpu_on for a non-boot core skips the wait before the reset and
\* cannot be DENIED before the reset-assert write.
C25_HeldAfterLateInit == [] HeldUntilTargeted /\ [][HeldUntilReleased]_vars

\* The first psci_cpu_on for core 3, found held, has skipped the wait and
\* written the reset-assert; the other non-boot cores are still held.
C25_Witness ==
    \E p \in Procs :
        /\ OnCall(p) /\ ctx[p].first /\ ctx[p].core_idx = 3
        /\ ctx[p].prewait = "skipped"
        /\ Has(ctx[p].log, "assert")
        /\ ctx[p].pc = "ret" /\ ctx[p].ret = PSCI_RET_DENIED
        /\ \A c \in NonBootCores \ {3} :
               Untargeted(c) /\ core_held_in_reset(c)

(***************************************************************************)
(* Properties of concurrent calls (SpecConc).                              *)
(***************************************************************************)
\* A psci_cpu_on call that has done its first step and has not returned.
InSequence(p) == OnCall(p) /\ ctx[p].log # <<>> /\ ctx[p].pc # "ret"

\* C9 as claimed: two psci_cpu_on calls for the same target never have their
\* steps interleaved; the target is not held in reset again between a call's
\* release write and its return; and when a call returns SUCCESS the entry
\* slot of its target holds that call's entry.
C9_AsClaimed ==
    /\ \A p \in Procs : \A q \in Procs \ {p} :
           ~(InSequence(p) /\ InSequence(q)
             /\ ctx[p].core_idx = ctx[q].core_idx)
    /\ \A p \in Procs :
           (OnCall(p) /\ Has(ctx[p].log, "release")) =>
               ~core_held_in_reset(ctx[p].core_idx)
    /\ \A p \in Procs :
           (OnCall(p) /\ ctx[p].pc = "ret" /\ ctx[p].ret = PSCI_RET_SUCCESS) =>
               ns_entry_addrs[ctx[p].core_idx] = ctx[p].entry

(***************************************************************************)
(* Properties of the system-level calls (SpecSys).                         *)
(***************************************************************************)
\* Bit b of the register content v, and v with that bit toggled.
StatusBit(v, b) == (v \div (2 ^ b)) % 2

ToggleBit(v, b) == IF StatusBit(v, b) = 1 THEN v - 2 ^ b ELSE v + 2 ^ b

\* The running call has changed no register, no snapshot field and no word
\* of memory, and has executed no barrier or instruction of the log.
NoSideEffect ==
    /\ sys.log = <<>>
    /\ cru = sys.pre
    /\ dram_d = sys.pre_d
    /\ booted
    /\ ns_entry_addrs = [c \in Cores |-> Word32(0, 0)]
    /\ isram = [o \in {BOOT_ADDR_OFFSET, LOCK_ADDR_OFFSET} |-> Word32(0, 0)]
    /\ ctx = [p \in Procs |-> IdleCtx]

\* C13: psci_affinity_info returns AFFINITY_LEVEL_OFF when the wait-for-
\* interrupt status bit of the core named by the low affinity field (bit
\* 5 + core of the status register) is set and AFFINITY_LEVEL_ON when it
\* is clear; toggling that bit of the register flips the result, toggling
\* any other bit does not; the call writes no register and no memory.
C13_AffinityInfo ==
    (sys.op = "affinity_info" /\ sys.pc = "ret") =>
        LET target == 5 + (sys.arg % (MPIDR_CPU_MASK + 1)) IN
        /\ sys.ret = IF StatusBit(sys.status, target) = 1
                     THEN PSCI_AFFINITY_LEVEL_OFF
                     ELSE PSCI_AFFINITY_LEVEL_ON
        /\ \A b \in 0 .. (MaxStatusBits - 1) :
               (psci_affinity_info(sys.arg, ToggleBit(sys.status, b)) # sys.ret)
                   <=> (b = target)
        /\ NoSideEffect

\* affinity 0x102 (core 2) with the wait-for-interrupt bits of cores 1 and 2
\* set in the status register: OFF.
C13_Witness ==
    /\ sys.op = "affinity_info" /\ sys.pc = "ret"
    /\ sys.arg = 258
    /\ sys.status = 192
    /\ sys.ret = PSCI_AFFINITY_LEVEL_OFF

\* C14: psci_features returns SUCCESS for exactly the six identifiers
\* 0x84000000 + n with n among 0 (version), 2 (cpu_off), 3 (cpu_on),
\* 9 (system_reset), 10 (features) and 14 (system_suspend), NOT_SUPPORTED for
\* every other identifier, that of affinity_info among them, and has no side
\* effect.
C14_Features ==
    (sys.op = "features" /\ sys.pc = "ret") =>
        /\ sys.ret = IF sys.fid[1] = 33792 /\ sys.fid[2] \in {0, 2, 3, 9, 10, 14}
                     THEN PSCI_RET_SUCCESS
                     ELSE PSCI_RET_NOT_SUPPORTED
        /\ sys.fid = PSCI_AFFINITY_INFO => sys.ret = PSCI_RET_NOT_SUPPORTED
        /\ NoSideEffect

C14_Witness ==
    /\ sys.op = "features" /\ sys.pc = "ret"
    /\ sys.fid = PSCI_SYSTEM_SUSPEND
    /\ sys.ret = PSCI_RET_SUCCESS

\* The places of the log holding a write of register reg.
WritesTo(log, reg) ==
    { j \in 1 .. Len(log) : log[j].ev = "write" /\ log[j].reg = reg }

\* The places of the log holding the event ev.
Places(log, ev) == { j \in 1 .. Len(log) : log[j].ev = ev }

\* C15: psci_system_reset writes slow mode to the PLL mode register, then
\* executes a barrier, then writes the global soft-reset trigger; the
\* trigger is never written before the slow-mode write and the barrier, and
\* no other register is written.
C15_SystemReset ==
    sys.op = "system_reset" =>
        LET log == sys.log IN
        /\ \A j \in Places(log, "write") :
               log[j].reg \in {CRU_MODE_CON, CRU_SNDRST_VAL_BASE}
        /\ \A j \in WritesTo(log, CRU_SNDRST_VAL_BASE) :
               /\ log[j].w = CRU_SNDRST_VAL
               /\ \E i \in WritesTo(log, CRU_MODE_CON) :
                      /\ log[i].w = PLLS_SLOW_MODE
                      /\ \E k \in Places(log, "dsb") : i < k /\ k < j
        /\ Cardinality(WritesTo(log, CRU_MODE_CON)) = 1
        /\ Cardinality(WritesTo(log, CRU_SNDRST_VAL_BASE)) <= 1
        /\ \A r \in CruRegs \ {CRU_MODE_CON, CRU_SNDRST_VAL_BASE} :
               cru[r] = sys.pre[r]
        /\ cru[CRU_MODE_CON] = CruWriteW(sys.pre[CRU_MODE_CON], PLLS_SLOW_MODE)
        /\ dram_d = sys.pre_d

C15_Witness ==
    /\ sys.op = "system_reset" /\ sys.pc = "soc_reset"
    /\ cru[CRU_SNDRST_VAL_BASE] = 60584
    /\ sys.pre[CRU_MODE_CON] = 65535
    /\ cru[CRU_MODE_CON] = 61180

\* The place of the wake from wait-for-interrupt in the log, past its end
\* when the call has not slept yet.
Wake(log) ==
    IF Places(log, "wfi") = {} THEN Len(log) + 1
    ELSE CHOOSE j \in Places(log, "wfi") : \A k \in Places(log, "wfi") : j <= k

\* The registers of the PLLs and dividers, as against the clock gates.
IsGate(reg) == reg[1] = "clkgate"

\* The word written by the event e is one of the power-down words of the
\* source: a gate word of the table, slow mode, PLL power-down, a divider
\* word of plls_power_down.
IsPowerDownWord(e) ==
    \/ \E i \in ClkgateRegs :
           /\ e.reg = CRU_CLKGATE_CON(i)
           /\ e.w = BITS_WITH_WMASK(clks_gating_table[i + 1], 65535, 0)
    \/ \E pll \in SuspendPlls :
           \/ e.reg = CRU_MODE_CON /\ e.w = PLL_SLOW_MODE(pll)
           \/ e.reg = CRU_PLL_CON1(pll) /\ e.w = PLL_POWER_DOWN
    \/ \E k \in 1 .. Len(PllsPowerDownWrites) :
           e.reg = PllsPowerDownWrites[k].reg /\ e.w = PllsPowerDownWrites[k].w

\* The phase of psci_system_suspend the event at place j of the log belongs
\* to, wake being the place of the wake: 1 clks_disable, 2 plls_power_down,
\* 3 the cache operation, 4 the sleep, 5 plls_restore, 6 clks_restore.
Phase(log, j, wake) ==
    LET e == log[j] IN
    CASE e.ev = "save" -> IF IsGate(e.reg) THEN 1 ELSE 2
      [] e.ev = "write" /\ j < wake -> IF IsGate(e.reg) THEN 1 ELSE 2
      [] e.ev = "write" /\ j > wake -> IF IsGate(e.reg) THEN 6 ELSE 5
      [] e.ev = "dcache_clean_inv" -> 3
      [] e.ev = "wfi" -> 4
      [] OTHER -> 5

\* C16: psci_system_suspend disables the domain clocks, powers down the
\* PLLs, cleans and invalidates the data cache, waits for an interrupt,
\* restores the PLLs, restores the domain clocks and returns SUCCESS, in this
\* order: the restore runs PLLs before clock gates, the reverse of the
\* power-down; no restore write comes before the wake; the result is SUCCESS
\* whenever the call returns.
C16_SuspendOrder ==
    sys.op = "system_suspend" =>
        LET log == sys.log
            n == Len(log)
            wake == Wake(log)
            slept == wake <= n
            writes == Places(log, "write")
            down == { j \in writes : j < wake }
            up == { j \in writes : j > wake }
        IN
        \* the phases follow one another in the order of the claim
        /\ \A j \in 1 .. (n - 1) : Phase(log, j, wake) <= Phase(log, j + 1, wake)
        /\ Cardinality(Places(log, "wfi")) <= 1
        /\ Cardinality(Places(log, "dcache_clean_inv")) <= 1
        \* before the wake: power-down words only, no power-up, no lock poll
        /\ \A j \in down : IsPowerDownWord(log[j]) /\ log[j].w # PLL_POWER_UP
        /\ \A j \in 1 .. n :
               log[j].ev \in {"udelay", "pll_check", "panic"} => j > wake
        \* the sleep follows the cache operation and the whole power-down
        /\ slept =>
               /\ log[wake - 1].ev = "dcache_clean_inv"
               /\ Cardinality({ j \in down : IsGate(log[j].reg) })
                      = CRU_CLKGATE_CON_CNT
               /\ Cardinality({ j \in down : ~IsGate(log[j].reg) })
                      = 2 * Len(PllDownOrder) + Len(PllsPowerDownWrites)
        /\ sys.pc \in {"pll_up", "pll_wait", "pll_check", "plls_restore_writes",
                       "clks_restore", "panic", "ret"} => slept
        \* the return: after the whole restore, with SUCCESS
        /\ sys.pc = "ret" =>
               /\ sys.ret = PSCI_RET_SUCCESS
               /\ Cardinality({ j \in up : IsGate(log[j].reg) })
                      = CRU_CLKGATE_CON_CNT
               /\ Cardinality({ j \in up : ~IsGate(log[j].reg) })
                      = Len(PllUpOrder) + Len(PllsRestoreWrites(dram_d))
               /\ IsGate(log[n].reg)

C16_Witness ==
    /\ sys.op = "system_suspend" /\ sys.pc = "ret"
    /\ sys.ret = PSCI_RET_SUCCESS
    /\ Places(sys.log, "wfi") # {}

\* The bits of register reg that the writes at the places js enable.
MaskBits(log, js, reg) ==
    { b \in 0 .. 15 :
        \E j \in js : log[j].reg = reg /\ StatusBit(log[j].w[1], b) = 1 }

\* C17: whatever the clock-gate registers, the clock-select registers 0, 1,
\* 10, 21 and the PLL-mode register held before, a psci_system_suspend call
\* in which every PLL locks leaves each of them bit-identical: the restore
\* writes of each register enable the very bits its power-down writes
\* enabled, and write the saved content.
C17_RoundTrip ==
    (sys.op = "system_suspend" /\ sys.pc = "ret") =>
        LET log == sys.log
            wake == Wake(log)
            writes == Places(log, "write")
            down == { j \in writes : j < wake }
            up == { j \in writes : j > wake }
        IN
        /\ \A r \in DramDataRegs :
               /\ cru[r] = sys.pre[r]
               /\ MaskBits(log, down, r) = MaskBits(log, up, r)
               /\ dram_d[r] = Word32(0, sys.pre[r])
        /\ \A j \in up :
               log[j].reg \in DramDataRegs =>
                   log[j].w[2] = sys.pre[log[j].reg]

\* A suspend that found 0xffff in CRU_CLKSEL_CON(1), 0xa5a5 in
\* CRU_CLKSEL_CON(10) and 0x5a5a in CRU_CLKGATE_CON(3) has returned, and
\* they hold that again.
C17_Witness ==
    /\ sys.op = "system_suspend" /\ sys.pc = "ret"
    /\ sys.pre[CRU_CLKSEL_CON(1)] = 65535
    /\ sys.pre[CRU_CLKSEL_CON(10)] = 42405
    /\ sys.pre[CRU_CLKGATE_CON(3)] = 23130
    /\ cru[CRU_CLKSEL_CON(1)] = 65535
    /\ cru[CRU_CLKSEL_CON(10)] = 42405
    /\ cru[CRU_CLKGATE_CON(3)] = 23130

\* The registers whose save the log holds before place j.
SavedBefore(log, j) ==
    { log[i].reg : i \in { k \in 1 .. (j - 1) : log[k].ev = "save" } }

\* C18 as claimed: the whole snapshot (mode word, clock-select words, all
\* clock-gate words) is saved before any power-down write: no power-down
\* write is issued while a snapshot field is unsaved.
C18_AsClaimed ==
    sys.op = "system_suspend" =>
        LET log == sys.log
            wake == Wake(log)
        IN  \A j \in 1 .. Len(log) :
                (log[j].ev = "write" /\ j < wake) =>
                    SavedBefore(log, j) = DramDataRegs

\* C18 as amended: each snapshot field is saved before the first power-down
\* write to the register it mirrors, and all of the snapshot is saved
\* before the first write of plls_power_down (slow mode, PLL power-down,
\* dividers); the clock-gate masking write of gate register i is issued
\* when only the gate words 0 .. i are saved.
C18_SavedBeforeOwnWrite ==
    sys.op = "system_suspend" =>
        LET log == sys.log
            wake == Wake(log)
        IN  /\ \A j \in 1 .. Len(log) :
                   (log[j].ev = "write" /\ j < wake) =>
                       SavedBefore(log, j) =
                           IF IsGate(log[j].reg)
                           THEN { CRU_CLKGATE_CON(i) : i \in 0 .. log[j].reg[2] }
                           ELSE DramDataRegs
            /\ \A j \in 1 .. Len(log) : log[j].ev = "save" => j < wake
            /\ sys.saved = { log[j].reg : j \in Places(log, "save") }

\* The power-down is over: every power-down write is in the log.
C18_Witness ==
    /\ sys.op = "system_suspend" /\ sys.pc = "cache_op"
    /\ sys.saved = DramDataRegs
    /\ Cardinality(Places(sys.log, "write"))
           = CRU_CLKGATE_CON_CNT + 2 * Len(PllDownOrder)
             + Len(PllsPowerDownWrites)

\* C19: a PLL that never reports lock during plls_restore halts the system:
\* the read after the loop of pll_wait_lock that does not see the lock is
\* followed by panic() at once, nothing is written or returned after the
\* halt, and a poll in which no read saw the lock has made exactly
\* PLL_LOCK_LOOPS (500) turns when it halts.
C19_NoLockPanics ==
    sys.op = "system_suspend" =>
        LET log == sys.log
            n == Len(log)
        IN
        /\ \A j \in 1 .. n :
               (log[j].ev = "pll_check" /\ log[j].w # Word32(0, PLL_LOCK)) =>
                   /\ j + 1 = n
                   /\ log[n].ev = "panic"
        /\ \A j \in 1 .. n : log[j].ev = "panic" => (j = n /\ sys.pc = "panic")
        /\ sys.pc = "panic" =>
               /\ log[n].ev = "panic"
               /\ \A j \in 1 .. n :
                      (log[j].ev = "write" /\ j > Wake(log)) =>
                          log[j].w = PLL_POWER_UP
        /\ (sys.pc \in {"pll_check", "panic"} /\ sys.nolock) =>
               sys.loop = PLL_LOCK_LOOPS
        /\ sys.loop <= PLL_LOCK_LOOPS

\* The second PLL polled (GPLL) never showed its lock: the system has halted
\* after 500 turns, and the registers are still as the power-down left them.
C19_Witness ==
    /\ sys.op = "system_suspend" /\ sys.pc = "panic"
    /\ sys.nolock /\ sys.loop = PLL_LOCK_LOOPS
    /\ sys.log[Len(sys.log)].reg = CRU_PLL_CON1(GPLL_ID)
    /\ cru[CRU_CLKGATE_CON(0)] = clks_gating_table[1]

\* C22 as claimed: in psci_system_suspend a barrier is executed between a
\* snapshot save and the power-down write that follows it.
C22_AsClaimed ==
    sys.op = "system_suspend" =>
        LET log == sys.log
            wake == Wake(log)
        IN  \A j \in 2 .. Len(log) :
                (log[j].ev = "write" /\ j < wake) =>
                    \A i \in 1 .. (j - 1) :
                        log[i].ev = "save" =>
                            \E k \in (i + 1) .. (j - 1) : log[k].ev = "dsb"

\* C23: each PLL is put in slow mode before its power-down bit is asserted;
\* on restore the three PLLs are powered up, each is seen locked, the saved
\* dividers are rewritten, and only then the mode bits are written back; the
\* mode bit of a PLL stays at slow (0) while the PLL is powered down or has
\* not been seen locked.
C23_ModeAfterLock ==
    sys.op = "system_suspend" =>
        LET log == sys.log
            n == Len(log)
            wake == Wake(log)
            writes == Places(log, "write")
            ups == { j \in writes : j > wake /\ log[j].w = PLL_POWER_UP }
            locks == { j \in Places(log, "pll_check") :
                         log[j].w = Word32(0, PLL_LOCK) }
            dividers == { j \in writes : j > wake /\ log[j].reg[1] = "clksel" }
            modes == { j \in writes : j > wake /\ log[j].reg = CRU_MODE_CON }
        IN
        /\ \A j \in writes :
               log[j].w = PLL_POWER_DOWN =>
                   /\ j > 1
                   /\ log[j - 1] = Ev("write", CRU_MODE_CON,
                                      PLL_SLOW_MODE(log[j].reg[2]))
        /\ \A j \in modes :
               /\ { log[i].reg[2] : i \in { u \in ups : u < j } } = SuspendPlls
               /\ { log[i].reg[2] : i \in { l \in locks : l < j } } = SuspendPlls
               /\ Cardinality({ i \in dividers : i < j })
                      = Len(PllsRestoreWrites(dram_d)) - Len(PllUpOrder)
        /\ \A u \in ups : \A l \in locks : u < l
        /\ \A l \in locks : \A i \in dividers : l < i
        /\ \A pll \in SuspendPlls :
               (/\ \E j \in writes : log[j] = Ev("write", CRU_MODE_CON,
                                                 PLL_SLOW_MODE(pll))
                /\ \/ StatusBit(cru[CRU_PLL_CON1(pll)], 13) = 1
                   \/ ~\E l \in locks : log[l].reg = CRU_PLL_CON1(pll))
               => StatusBit(cru[CRU_MODE_CON], PLL_MODE_BIT(pll)) = 0

\* A suspend that found every mode bit set has powered the PLLs up, seen
\* them locked and set the mode bits again.
C23_Witness ==
    /\ sys.op = "system_suspend" /\ sys.pc = "clks_restore"
    /\ sys.pre[CRU_MODE_CON] = 65535
    /\ cru[CRU_MODE_CON] = 65535
    /\ \A pll \in SuspendPlls : StatusBit(cru[CRU_PLL_CON1(pll)], 13) = 0

(***************************************************************************)
(* dra7_rng.c: hw_get_random_byte, called from several threads.            *)
(***************************************************************************)
RngAt(p, pc) == trng.call[p].pc = pc

RngGoto(p, pc) == [trng EXCEPT !.call[p].pc = pc]

\* A thread calls hw_get_random_byte.
hw_get_random_byte_enter(p) ==
    /\ RngAt(p, "idle")
    /\ trng.calls < MaxRngCalls
    /\ trng' = [trng EXCEPT !.call[p] = [IdleCall EXCEPT !.pc = "mutex_lock"],
                            !.calls = @ + 1]
    /\ UNCHANGED <<corevars, cru, dram_d, sys>>

\* mutex_lock(&rng_mutex): the caller waits until the mutex is free and
\* takes it.
mutex_lock(p) ==
    /\ RngAt(p, "mutex_lock")
    /\ trng.mutex = 0
    /\ trng' = [RngGoto(p, "rng_base") EXCEPT !.mutex = p]
    /\ UNCHANGED <<corevars, cru, dram_d, sys>>

\* if (!rng) rng = rng_base();
rng_set_base(p) ==
    /\ RngAt(p, "rng_base")
    /\ trng' = [RngGoto(p, "pos_check") EXCEPT
                    !.rng = IF @ = NoVa THEN rng_base ELSE @]
    /\ UNCHANGED <<corevars, cru, dram_d, sys>>

\* if (!pos)
rng_pos_check(p) ==
    /\ RngAt(p, "pos_check")
    /\ trng' = RngGoto(p, IF trng.pos = 0 THEN "ready_poll" ELSE "take")
    /\ UNCHANGED <<corevars, cru, dram_d, sys>>

\* while (!(read32(rng + RNG_STATUS) & RNG_READY))
rng_ready_poll(p, status) ==
    /\ RngAt(p, "ready_poll")
    /\ trng' = RngGoto(p, IF BitAnd(status, RNG_READY) # 0 THEN "read_l"
                          ELSE "oflo_check")
    /\ UNCHANGED <<corevars, cru, dram_d, sys>>

\* The body of the loop: on SHUTDOWN_OFLO the alarm events are cleared, the
\* offending FROs de-tuned, all FROs re-enabled and the event acknowledged.
rng_oflo_check(p, status, alarm) ==
    /\ RngAt(p, "oflo_check")
    /\ trng' =
           IF BitAnd(status, SHUTDOWN_OFLO) # 0
               THEN [RngGoto(p, "ready_poll") EXCEPT
                        !.regs = [RNG_ALARMMASK |-> 0, RNG_ALARMSTOP |-> 0,
                                  RNG_FRODETUNE |->
                                      BitXor(trng.regs.RNG_FRODETUNE, alarm),
                                  RNG_FROENABLE |-> RNG_FRO_MASK],
                        !.oflo_acked = TRUE]
               ELSE RngGoto(p, "ready_poll")
    /\ UNCHANGED <<corevars, cru, dram_d, sys>>

\* random.val = read32(rng + RNG_OUTPUT_L): the high word is cleared.
rng_read_l(p, v) ==
    /\ RngAt(p, "read_l")
    /\ trng' = [RngGoto(p, "read_h") EXCEPT
                    !.random = RandomVal(v, Word32(0, 0))]
    /\ UNCHANGED <<corevars, cru, dram_d, sys>>

\* random.val |= SHIFT_U64(read32(rng + RNG_OUTPUT_H), 32)
rng_read_h(p, v) ==
    /\ RngAt(p, "read_h")
    /\ LET val == RandomVal(trng.random[1], WordOr(trng.random[2], v))
       IN  trng' = [RngGoto(p, "ack") EXCEPT
                        !.random = val, !.fetched = Append(@, val)]
    /\ UNCHANGED <<corevars, cru, dram_d, sys>>

\* write32(RNG_READY, rng + RNG_INTACK)
rng_ack(p) ==
    /\ RngAt(p, "ack")
    /\ trng' = [RngGoto(p, "take") EXCEPT !.acks = @ + 1]
    /\ UNCHANGED <<corevars, cru, dram_d, sys>>

rng_take_SamePos(p) ==
    /\ RngAt(p, "take")
    /\ LET b == RandomByte(trng.random, trng.pos)
       IN  trng' = [trng EXCEPT
                        !.call[p] = [pc |-> "wrap", ret |-> b,
                                     took |-> Len(trng.taken) + 1],
                        !.taken = Append(@, [idx |-> trng.pos, byte |-> b])]
    /\ UNCHANGED <<corevars, cru, dram_d, sys>>

\* ret = random.byte[pos++]
rng_take(p) ==
    /\ RngAt(p, "take")
    /\ LET b == RandomByte(trng.random, trng.pos)
       IN  trng' = [trng EXCEPT
                        !.call[p] = [pc |-> "wrap", ret |-> b,
                                     took |-> Len(trng.taken) + 1],
                        !.pos = @ + 1,
                        !.taken = Append(@, [idx |-> trng.pos, byte |-> b])]
    /\ UNCHANGED <<corevars, cru, dram_d, sys>>

\* if (pos == 8) pos = 0;
rng_wrap(p) ==
    /\ RngAt(p, "wrap")
    /\ trng' = [RngGoto(p, "mutex_unlock") EXCEPT
                    !.pos = IF @ = 8 THEN 0 ELSE @]
    /\ UNCHANGED <<corevars, cru, dram_d, sys>>

\* mutex_unlock(&rng_mutex)
mutex_unlock(p) ==
    /\ RngAt(p, "mutex_unlock")
    /\ trng' = [RngGoto(p, "return") EXCEPT !.mutex = 0]
    /\ UNCHANGED <<corevars, cru, dram_d, sys>>

\* return ret
rng_return(p) ==
    /\ RngAt(p, "return")
    /\ trng' = [trng EXCEPT
                    !.call[p].pc = "idle",
                    !.returned = @ \cup {trng.call[p].took},
                    !.twice = @ \/ trng.call[p].took \in trng.returned]
    /\ UNCHANGED <<corevars, cru, dram_d, sys>>

NextRng ==
    \E p \in Procs :
        \/ hw_get_random_byte_enter(p)
        \/ mutex_lock(p)
        \/ rng_set_base(p)
        \/ rng_pos_check(p)
        \/ \E status \in RngStatusReads : rng_ready_poll(p, status)
        \/ \E status \in RngStatusReads, alarm \in RngAlarms :
               rng_oflo_check(p, status, alarm)
        \/ \E v \in RngOutputs : rng_read_l(p, v)
        \/ \E v \in RngOutputs : rng_read_h(p, v)
        \/ rng_ack(p)
        \/ rng_take(p)
        \/ rng_wrap(p)
        \/ mutex_unlock(p)
        \/ rng_return(p)

SpecRng == Init /\ [][NextRng]_vars

(***************************************************************************)
(* Termination of the polling calls (SpecTerm).                            *)
(***************************************************************************)
\* How far a psci_cpu_on call is: its statements in program order, the wait
\* before the reset and the wait after the release apart.
OnStage(c) ==
    CASE c.pc = "on_set_entry" -> 1
      [] c.pc = "on_held_check" -> 2
      [] c.pc = "wfe_loop" /\ c.site = "pre" -> 3
      [] c.pc = "wfe_return" /\ c.site = "pre" -> 4
      [] c.pc = "on_assert" -> 5
      [] c.pc = "on_release" -> 6
      [] c.pc = "wfe_loop" /\ c.site = "post" -> 7
      [] c.pc = "wfe_return" /\ c.site = "post" -> 8
      [] c.pc = "on_boot" -> 9
      [] c.pc = "on_lock" -> 10
      [] c.pc = "on_sev" -> 11
      [] c.pc = "on_success" -> 12
      [] OTHER -> 13

\* A bound on the steps a psci_cpu_on call has left: each stage costs at
\* most a full poll.
OnRank(c) == (13 - OnStage(c)) * (WfeLoopMax + 2) + (WfeLoopMax - c.loop)

RestoreWriteCnt == Len(PllsRestoreWrites(DramBoot))

LastResumeStage ==
    3 * Len(PllUpOrder) + RestoreWriteCnt + 1 + CRU_CLKGATE_CON_CNT

\* How far the resume half of psci_system_suspend is: the three power-up
\* writes, poll and check of each PLL, the nine restore writes, the sixteen
\* gate writes, the end.
ResumeStage(c) ==
    CASE c.pc = "pll_up" -> c.i
      [] c.pc = "pll_wait" -> Len(PllUpOrder) + 2 * c.i - 1
      [] c.pc = "pll_check" -> Len(PllUpOrder) + 2 * c.i
      [] c.pc = "plls_restore_writes" -> 3 * Len(PllUpOrder) + c.i
      [] c.pc = "clks_restore" ->
             3 * Len(PllUpOrder) + RestoreWriteCnt + 1 + c.i
      [] OTHER -> LastResumeStage

ResumeRank(c) ==
    (LastResumeStage - ResumeStage(c)) * (PLL_LOCK_LOOPS + 2)
        + (PLL_LOCK_LOOPS - c.loop)

ResumePcs ==
    {"pll_up", "pll_wait", "pll_check", "plls_restore_writes", "clks_restore"}

\* A call in flight can take a step that changes its state, its rank is not
\* negative, and its polls are within their bounds; a psci_cpu_on that has
\* returned has returned SUCCESS, INVALID_PARAMETERS or DENIED; a resume that
\* has ended has returned SUCCESS or halted.
CallsCanEnd ==
    /\ \A p \in {TermProc} :
           OnCall(p) =>
               /\ ctx[p].loop <= WfeLoopMax
               /\ OnRank(ctx[p]) >= 0
               /\ ctx[p].pc # "ret" =>
                      ENABLED (StepOn(p) /\ ctx'[p] # ctx[p])
               /\ ctx[p].pc = "ret" =>
                      ctx[p].ret \in {PSCI_RET_SUCCESS,
                                      PSCI_RET_INVALID_PARAMETERS,
                                      PSCI_RET_DENIED}
    /\ sys.op = "system_suspend" =>
           /\ sys.loop <= PLL_LOCK_LOOPS
           /\ ResumeRank(sys) >= 0
           /\ sys.pc \in ResumePcs => ENABLED (StepResume /\ sys' # sys)
           /\ sys.pc \in {"ret", "panic"} \/ sys.pc \in ResumePcs
                  \/ Places(sys.log, "wfi") = {}
           /\ sys.pc = "ret" => sys.ret = PSCI_RET_SUCCESS

\* Every step of a psci_cpu_on call and of the resume half lowers the rank
\* of the call: the call ends within as many steps as its rank.
RankFalls ==
    /\ \A p \in {TermProc} :
           (OnCall(p) /\ ctx[p].pc # "ret" /\ ctx'[p] # ctx[p]) =>
               /\ ctx'[p].op = "cpu_on"
               /\ OnRank(ctx'[p]) < OnRank(ctx[p])
    /\ (sys.op = "system_suspend" /\ sys.pc \in ResumePcs /\ sys' # sys) =>
           /\ sys'.op = "system_suspend"
           /\ sys'.pc \in ResumePcs \cup {"ret", "panic"}
           /\ ResumeRank(sys') < ResumeRank(sys)

\* C21: whatever the status registers read, psci_cpu_on ends after a
\* bounded number of steps with SUCCESS, INVALID_PARAMETERS or DENIED, and
\* the resume half of psci_system_suspend ends by returning SUCCESS or by
\* the fatal halt; no polling loop waits without bound.
C21_BoundedTermination == [] CallsCanEnd /\ [][RankFalls]_vars

\* After a suspend has resumed and returned, a psci_cpu_on whose polls never
\* saw the status bit has used up the bound and returned DENIED.
C21_Witness ==
    /\ dram_d # DramBoot
    /\ sys.pc = "idle"
    /\ OnCall(TermProc) /\ ctx[TermProc].pc = "ret"
    /\ ctx[TermProc].ret = PSCI_RET_DENIED
    /\ ctx[TermProc].loop = WfeLoopMax
    /\ ~ctx[TermProc].seen

(***************************************************************************)
(* Properties of concurrent hw_get_random_byte calls (SpecRng).            *)
(***************************************************************************)
\* The calls that hold a byte they have not returned yet.
RngHolding == {p \in Procs : trng.call[p].pc \in {"wrap", "mutex_unlock", "return"}}

\* C26: under any interleaving of callers of hw_get_random_byte, pos is in
\* 0..7 whenever the mutex is free; one 64-bit value is read and
\* acknowledged per 8 bytes handed out; the bytes of a value are handed out
\* in index order 0..7, each to exactly one call, which returns it; the
\* mutex is not held by a call that returns.
C26_RngBytes ==
    LET taken == trng.taken
        fetched == trng.fetched
        n == Len(taken)
    IN  /\ trng.mutex = 0 =>
               /\ trng.pos \in 0 .. 7
               /\ trng.pos = n % 8
               /\ Len(fetched) = (n + 7) \div 8
               /\ trng.acks = Len(fetched)
        /\ Len(fetched) \in {(n + 7) \div 8, (n + 7) \div 8 + 1}
        /\ trng.acks \in {Len(fetched), Len(fetched) - 1}
        /\ \A j \in 1 .. n :
               /\ taken[j].idx = (j - 1) % 8
               /\ taken[j].byte = RandomByte(fetched[((j - 1) \div 8) + 1],
                                             taken[j].idx)
        /\ \A p \in RngHolding :
               /\ trng.call[p].took \in 1 .. n
               /\ trng.call[p].ret = taken[trng.call[p].took].byte
               /\ trng.call[p].took \notin trng.returned
               /\ \A q \in RngHolding \ {p} :
                      trng.call[q].took # trng.call[p].took
        /\ trng.returned \cup {trng.call[p].took : p \in RngHolding} = 1 .. n
        /\ ~trng.twice
        /\ \A p \in Procs : RngAt(p, "return") => trng.mutex # p
        /\ \A p \in Procs :
               trng.call[p].pc \in {"idle", "mutex_lock", "return"}
                   <=> trng.mutex # p

\* Two values have been fetched, the first handed out whole and the second
\* begun, bytes of one value went to both callers, a call is about to return
\* a byte of the second value, and the mutex is free.
C26_Witness ==
    /\ Len(trng.fetched) = 2
    /\ trng.fetched[1] # trng.fetched[2]
    /\ Len(trng.taken) > 9
    /\ trng.mutex = 0
    /\ trng.rng = rng_base
    /\ \E p \in Procs :
           /\ RngAt(p, "return")
           /\ trng.call[p].took = Len(trng.taken)
           /\ trng.call[p].took - 1 \in trng.returned

=============================================================================
